---------------------------- MODULE Spec2Model ----------------------------
(***************************************************************************)
(* The quota-gated placement ledger of the dot canvas: the sessions and    *)
(* dots tables and the route handlers that read and write them.  Every     *)
(* awaited Supabase call of a handler is one atomic step, so two requests  *)
(* interleave exactly where the handlers await the database.               *)
(***************************************************************************)
EXTENDS Integers, Naturals, Sequences, FiniteSets, TLC

\* ------------------------------------------------------------------ bounds
MaxRequests == 2          \* requests issued in one behaviour
MaxBatch == 2             \* dots in one place-batch request
MaxInitRemaining == 2     \* free dots a participant has left at the start
MaxInitCredits == 1       \* credits a revealed participant holds at the start
MaxSeqPlacements == 11    \* placements a new participant makes one at a time
MaxSeqSpent == 2          \* credits spent before the one-at-a-time caller stops
MaxFaults == 2            \* database calls that fail in one behaviour
MaxClicks == 4            \* clicks a client makes in one behaviour
MaxFlushCalls == 3        \* calls of flushBuffer by the flush effect
MaxNetErrors == 2         \* fetches that fail with a network error

\* ------------------------------------------------------- program constants
FREE_DOTS == 10           \* the blind-phase limit of the place routes
CREDITS_50 == 50
CREDITS_100 == 100
CREDITS_500 == 500

Sessions == {"s1", "s2"}          \* rows of the sessions table
UnknownSession == "s0"            \* a session id with no row
KeyOrder == <<"k1", "k2">>        \* client-generated idempotency keys, by first use
ClientDotIds == {KeyOrder[i] : i \in 1..Len(KeyOrder)}
NULL == "null"                    \* SQL NULL / an absent clientDotId
Phases == {"blind", "paid"}
Reqs == 1..MaxRequests
\* crypto.randomUUID(): the n-th click of a client gets the n-th of these.
randomUUID == <<"c1", "c2", "c3", "c4", "c5", "c6">>
ClientUuids == {randomUUID[i] : i \in 1..MaxClicks}

VARIABLES
  sessions,       \* sessions table: session_id -> row
  dots,           \* dots table: kind of row -> number of such rows
  pc,             \* per request: the database call it is about to make
  req,            \* per request: the parsed request body
  session,        \* per request: the session row the handler read
  acceptCount,    \* per request (place-batch): dots it will try to insert
  insertedDots,   \* per request (place-batch): clientDotIds pushed so far
  idx,            \* per request (place-batch): position of the insert loop
  resp,           \* per request: the response returned
  granted,        \* history: credits granted to each session by the webhook
  everRevealed,   \* history: the session's revealed flag has been true
  revealFlips,    \* history: writes that changed revealed from false to true
  lateBlind,      \* history: blind rows stored after everRevealed
  initial,        \* history: the sessions table of the initial state
  scenario,       \* history: placements a new participant has made one at a
                  \* time and nothing else, or -1 once that is no longer so
  before,         \* history: both tables when the one-at-a-time caller was
                  \* last free to send a request
  faults,         \* history: database calls that have failed
  color_hex,      \* sessions.color_hex: session_id -> hex, NULL without a row
  candidateHex,   \* per request (session init): the hex it will try to insert
  serverSession,  \* client: the session snapshot it holds
  isRevealed,     \* client: its isRevealed flag
  pendingPlacements, \* queued client: placements waiting to be sent
  pendingBlindIds,   \* queued client: ids of blind placements not yet settled
  inFlightCount,     \* queued client: its count of requests in flight
  localDots,      \* client: clientDotIds of the provisional marks drawn
  flight,         \* client: per clientDotId, where its placement is
  sentOrder,      \* history: clientDotIds in the order they were sent
  allRequests,    \* history: GET /api/dots/all requests the client issued
  dotBuffer,      \* batching client: placements waiting for the next flush
  isFlushing,     \* batching client: a flush is in progress
  flushBuffer,    \* batching client: what the memoized flushBuffer sees
  call,           \* batching client: the flushBuffer call in progress
  refreshed,      \* batching client: the refresh after a Stripe redirect ran
  flushCalls,     \* history: calls of flushBuffer made by the flush effect
  netErrors,      \* history: fetches that failed with a network error
  attempts,       \* history: per clientDotId, requests that carried it
  isPlacing,      \* page client: a placement is being submitted
  component       \* the Home component that has acted: batching or page

vars == <<sessions, dots, pc, req, session, acceptCount, insertedDots, idx,
          resp, granted, everRevealed, revealFlips, lateBlind, initial,
          scenario, before, faults, color_hex, candidateHex, serverSession,
          isRevealed, pendingPlacements, pendingBlindIds, inFlightCount,
          localDots, flight, sentOrder, allRequests, dotBuffer, isFlushing,
          flushBuffer, call, refreshed, flushCalls, netErrors, attempts,
          isPlacing, component>>

locals == <<session, acceptCount, insertedDots, idx>>
batchUi == <<dotBuffer, isFlushing, flushBuffer, call, refreshed, flushCalls,
             netErrors, attempts>>
pageUi == <<isPlacing, component>>
ui == <<pendingPlacements, pendingBlindIds, inFlightCount, localDots, flight,
        sentOrder, allRequests, batchUi, pageUi>>
rest == <<before, faults, color_hex, candidateHex, serverSession, isRevealed,
          ui>>
history == <<granted, everRevealed, revealFlips, lateBlind, initial, scenario, rest>>
tables == <<sessions, dots>>

\* ------------------------------------------------------------ dots table
\* A row of dots, up to its uuid, coordinates and created_at.
RowKinds == [session_id : Sessions, phase : Phases,
             client_dot_id : ClientDotIds \cup ClientUuids \cup {NULL}]

Row(sessionId, phase, clientDotId) ==
  [session_id |-> sessionId, phase |-> phase, client_dot_id |-> clientDotId]

EmptyDots == [k \in RowKinds |-> 0]

RECURSIVE SumOver(_, _)
SumOver(S, f) ==
  IF S = {} THEN 0
  ELSE LET k == CHOOSE e \in S : TRUE IN f[k] + SumOver(S \ {k}, f)

\* Number of rows of a table with the given session and phase.
CountDots(table, sessionId, phase) ==
  SumOver({k \in RowKinds : k.session_id = sessionId /\ k.phase = phase}, table)

TotalDots(table) == SumOver(RowKinds, table)

\* idx_dots_session_client_dot_id: a row with this (session_id, client_dot_id)
\* is already stored (the index does not cover NULL client_dot_id).
UniqueViolation(table, sessionId, clientDotId) ==
  /\ clientDotId # NULL
  /\ \E ph \in Phases : table[Row(sessionId, ph, clientDotId)] > 0

InsertDot(table, row) == [table EXCEPT ![row] = @ + 1]

\* ---------------------------------------------------------- sessions table
SessionRow(used, rev, cr) ==
  [blind_dots_used |-> used, revealed |-> rev, credits |-> cr]

NoSession == SessionRow(-1, FALSE, -1)     \* "no row" / no snapshot in a body

\* ------------------------------------------------------------- responses
NoResp == [kind |-> "none", session |-> NoSession, accepted |-> <<>>,
           dots |-> EmptyDots]

Reply(kind, snap) == [NoResp EXCEPT !.kind = kind, !.session = snap]

NoReq == [op |-> "none", sessionId |-> UnknownSession, clientDotId |-> NULL,
          points |-> <<>>, dots |-> <<>>, creditsToGrant |-> 0, replay |-> FALSE,
          colorName |-> NULL, fault |-> FALSE, signature |-> NULL,
          type |-> NULL, priceId |-> NULL, client |-> FALSE, phase |-> NULL]


\* ------------------------------------------------------------ colour pools
\* COLOR_POOLS: for each allowed colour name the hexes left by sanitizePool,
\* in pool order (the first three of blue, the first of red).
ColorNames == {"blue", "red"}
COLOR_POOLS == [c \in ColorNames |->
                  IF c = "blue" THEN <<"#1e90ff", "#4169e1", "#4682b4">>
                  ELSE <<"#ff0000">>]
Hexes == UNION {{COLOR_POOLS[c][i] : i \in 1..Len(COLOR_POOLS[c])} : c \in ColorNames}

\* sessions.color_hex: the participants of the placement specifications were
\* created with the first hex of blue and of red; a session created by
\* request r has the uuid of that request and no row before it is created.
uuidv4 == <<"u1", "u2", "u3">>
InitColors ==
  [id \in Sessions \cup {uuidv4[r] : r \in Reqs} |->
     IF id = "s1" THEN "#1e90ff" ELSE IF id = "s2" THEN "#ff0000" ELSE NULL]

\* The client before its first click: nothing queued, sent or drawn.
NoFlight == [status |-> "none", phase |-> NULL, wasRevealed |-> FALSE,
             snapRevealed |-> FALSE, snapshot |-> NoSession]
NoCall == [status |-> "none", bufferToSend |-> <<>>, revealed |-> FALSE]
UiInit ==
  /\ pendingPlacements = <<>>
  /\ pendingBlindIds = {}
  /\ inFlightCount = 0
  /\ localDots = <<>>
  /\ flight = [k \in ClientUuids |-> NoFlight]
  /\ sentOrder = <<>>
  /\ allRequests = 0
  /\ dotBuffer = <<>>
  /\ isFlushing = FALSE
  /\ flushBuffer = [dotBuffer |-> <<>>, isFlushing |-> FALSE,
                    revealed |-> sessions["s1"].revealed]
  /\ call = NoCall
  /\ refreshed = FALSE
  /\ flushCalls = 0
  /\ netErrors = 0
  /\ attempts = [k \in ClientUuids |-> 0]
  /\ isPlacing = FALSE
  /\ component = "none"

\* --------------------------------------------------------------- Init
\* Ledgers a participant reaches by placing dots one at a time and, once
\* revealed, buying the 50-credit bundle and spending part of it.
InitRows ==
  {SessionRow(FREE_DOTS - k, FALSE, 0) : k \in 1..MaxInitRemaining}
    \cup {SessionRow(FREE_DOTS, TRUE, c) : c \in 0..MaxInitCredits}

InitGranted(row) == IF row.credits > 0 THEN CREDITS_50 ELSE 0

InitDots(rows) ==
  [k \in RowKinds |->
     IF k.client_dot_id # NULL THEN 0
     ELSE IF k.phase = "blind" THEN rows[k.session_id].blind_dots_used
     ELSE InitGranted(rows[k.session_id]) - rows[k.session_id].credits]

\* The second participant starts with one free dot left.
Init ==
  /\ sessions \in {f \in [Sessions -> InitRows] :
                     f["s2"] = SessionRow(FREE_DOTS - 1, FALSE, 0)}
  /\ dots = InitDots(sessions)
  /\ pc = [r \in Reqs |-> "idle"]
  /\ req = [r \in Reqs |-> NoReq]
  /\ session = [r \in Reqs |-> NoSession]
  /\ acceptCount = [r \in Reqs |-> 0]
  /\ insertedDots = [r \in Reqs |-> <<>>]
  /\ idx = [r \in Reqs |-> 0]
  /\ resp = [r \in Reqs |-> NoResp]
  /\ granted = [s \in Sessions |-> InitGranted(sessions[s])]
  /\ everRevealed = [s \in Sessions |-> sessions[s].revealed]
  /\ revealFlips = [s \in Sessions |-> IF sessions[s].revealed THEN 1 ELSE 0]
  /\ lateBlind = [s \in Sessions |-> 0]
  /\ initial = sessions
  /\ scenario = [s \in Sessions |-> -1]
  /\ before = tables
  /\ faults = 0
  /\ color_hex = InitColors
  /\ candidateHex = [r \in Reqs |-> NULL]
  /\ serverSession = sessions["s1"]
  /\ isRevealed = sessions["s1"].revealed
  /\ UiInit

\* ------------------------------------------------------- shared helpers
\* .from('sessions').select(...).eq('session_id', id).single()
SelectSession(sessionId) ==
  IF sessionId \in Sessions THEN sessions[sessionId] ELSE NoSession

\* Coordinates in tenths; the routes accept the closed unit interval only.
Points == {<<0, 10>>, <<15, 5>>, <<5, -1>>}
\* The range check with its upper bound left out.
InvalidCoordinates_noUpper(x, y) == x < 0 \/ y < 0

InvalidCoordinates(x, y) == x < 0 \/ x > 10 \/ y < 0 \/ y > 10

\* Keys are generated by the client: the n-th distinct key of a behaviour is
\* KeyOrder[n], so a key is usable once all keys before it have been used.
Range(seq) == {seq[i] : i \in 1..Len(seq)}
UsedIds ==
  {req[q].clientDotId : q \in Reqs} \cup UNION {Range(req[q].dots) : q \in Reqs}
    \cup {k.client_dot_id : k \in {e \in RowKinds : dots[e] > 0}}
Usable(k, used) ==
  \A i \in 1..Len(KeyOrder) :
    KeyOrder[i] = k => \A j \in 1..(i - 1) : KeyOrder[j] \in used

\* Every request issued so far has returned.
Quiescent == \A r \in Reqs : pc[r] \in {"idle", "done"}

\* History kept with a request: every clientDotId it carries was stored for its
\* session by requests that had returned when it was issued.
Accepted(sessionId, ids) ==
  /\ sessionId \in Sessions
  /\ Quiescent
  /\ \A i \in 1..Len(ids) : UniqueViolation(dots, sessionId, ids[i])

\* Requests are issued in order of their number.
CanStart(r) == pc[r] = "idle" /\ \A q \in Reqs : q < r => pc[q] # "idle"

Finish(r, body) ==
  /\ pc' = [pc EXCEPT ![r] = "done"]
  /\ resp' = [resp EXCEPT ![r] = body]

Goto(r, label) ==
  /\ pc' = [pc EXCEPT ![r] = label]
  /\ UNCHANGED resp

\* A write to a session row, with the history of its revealed flag.
WriteSession(sessionId, row) ==
  /\ sessions' = [sessions EXCEPT ![sessionId] = row]
  /\ everRevealed' = [everRevealed EXCEPT ![sessionId] = @ \/ row.revealed]
  /\ revealFlips' = [revealFlips EXCEPT ![sessionId] =
        IF row.revealed /\ ~sessions[sessionId].revealed THEN @ + 1 ELSE @]

\* A row stored in dots, with the history of blind rows stored after reveal.
StoreDot(row) ==
  /\ dots' = InsertDot(dots, row)
  /\ lateBlind' = [lateBlind EXCEPT ![row.session_id] =
        IF row.phase = "blind" /\ everRevealed[row.session_id]
        THEN @ + 1 ELSE @]


\* ------------------------------------------- POST /api/dots/place (placeOne)
\* Body parsing and validation: no database call is made before it passes (a
\* rejected body is not kept).
PlaceOneStart(r) ==
  /\ CanStart(r)
  /\ \E p \in Points :
       IF InvalidCoordinates(p[1], p[2])
       THEN /\ req' = [req EXCEPT ![r] =
                 [NoReq EXCEPT !.op = "placeOne", !.points = <<p>>]]
            /\ Finish(r, Reply("VALIDATION", NoSession))
       ELSE \E sessionId \in Sessions \cup {UnknownSession},
               clientDotId \in ClientDotIds \cup {NULL} :
              /\ Usable(clientDotId, UsedIds)
              /\ req' = [req EXCEPT ![r] =
                   [NoReq EXCEPT !.op = "placeOne", !.sessionId = sessionId,
                                 !.clientDotId = clientDotId, !.points = <<p>>,
                                 !.replay = Accepted(sessionId, <<clientDotId>>)]]
              /\ Goto(r, "place_fetch")
  /\ UNCHANGED <<tables, locals, history>>

\* The credit check with its boundary off by one.
InsufficientCredits_strict(row) == row.credits < 0

\* if (session.credits <= 0): the revealed phase requires credits.
InsufficientCredits(row) == row.credits <= 0

\* Fetch session, then every decision taken before the next database call.
PlaceOneFetchSession(r) ==
  /\ pc[r] = "place_fetch"
  /\ LET row == SelectSession(req[r].sessionId) IN
       /\ session' = [session EXCEPT ![r] = row]
       /\ IF row = NoSession
          THEN Finish(r, Reply("NOT_FOUND", NoSession))
          ELSE IF ~row.revealed
          THEN IF row.blind_dots_used >= FREE_DOTS
               THEN Finish(r, Reply("NO_FREE_DOTS", row))
               ELSE IF req[r].clientDotId # NULL
                    THEN Goto(r, "place_lookup")
                    ELSE Goto(r, "place_insert_blind")
          ELSE IF InsufficientCredits(row)
               THEN Finish(r, Reply("INSUFFICIENT_CREDITS", NoSession))
               ELSE Goto(r, "place_insert_paid")
  /\ UNCHANGED <<tables, req, acceptCount, insertedDots, idx, history>>

\* Idempotency lookup of (session_id, client_dot_id) in dots.
PlaceOneLookup(r) ==
  /\ pc[r] = "place_lookup"
  /\ IF UniqueViolation(dots, req[r].sessionId, req[r].clientDotId)
     THEN Goto(r, "place_refetch")
     ELSE Goto(r, "place_insert_blind")
  /\ UNCHANGED <<tables, req, locals, history>>

\* The dot exists: return the current session row as a success.
PlaceOneRefetch(r) ==
  /\ pc[r] \in {"place_refetch", "place_refetch_dup"}
  /\ Finish(r, Reply("OK", SelectSession(req[r].sessionId)))
  /\ UNCHANGED <<tables, req, locals, history>>

\* Insert the blind dot; a unique violation is answered idempotently.
PlaceOneInsertBlind(r) ==
  /\ pc[r] = "place_insert_blind"
  /\ IF UniqueViolation(dots, req[r].sessionId, req[r].clientDotId)
     THEN /\ Goto(r, "place_refetch_dup")
          /\ UNCHANGED <<dots, lateBlind>>
     ELSE /\ StoreDot(Row(req[r].sessionId, "blind", req[r].clientDotId))
          /\ Goto(r, "place_update_blind")
  /\ UNCHANGED <<sessions, req, locals, granted, everRevealed, revealFlips, initial, scenario, rest>>

\* The auto-reveal threshold missing the tenth dot.
ShouldReveal_late(newBlindDotsUsed) == newBlindDotsUsed > FREE_DOTS

\* const shouldReveal = newBlindDotsUsed >= 10
ShouldReveal(newBlindDotsUsed) == newBlindDotsUsed >= FREE_DOTS

\* Write blind_dots_used and revealed computed from the row read at the start.
PlaceOneUpdateBlind(r) ==
  /\ pc[r] = "place_update_blind"
  /\ LET newBlindDotsUsed == session[r].blind_dots_used + 1
         shouldReveal == ShouldReveal(newBlindDotsUsed)
         updatedSession == [sessions[req[r].sessionId] EXCEPT
                              !.blind_dots_used = newBlindDotsUsed,
                              !.revealed = shouldReveal]
     IN /\ WriteSession(req[r].sessionId, updatedSession)
        /\ Finish(r, Reply("OK", updatedSession))
  /\ UNCHANGED <<dots, req, locals, granted, lateBlind, initial, scenario, rest>>

\* Revealed phase: the paid dot is stored without client_dot_id.
PlaceOneInsertPaid(r) ==
  /\ pc[r] = "place_insert_paid"
  /\ StoreDot(Row(req[r].sessionId, "paid", NULL))
  /\ Goto(r, "place_update_paid")
  /\ UNCHANGED <<sessions, req, locals, granted, everRevealed, revealFlips, initial, scenario, rest>>

\* Decrement credits from the row read at the start.
PlaceOneUpdatePaid(r) ==
  /\ pc[r] = "place_update_paid"
  /\ LET updatedSession == [sessions[req[r].sessionId] EXCEPT
                              !.credits = session[r].credits - 1]
     IN /\ WriteSession(req[r].sessionId, updatedSession)
        /\ Finish(r, Reply("OK", updatedSession))
  /\ UNCHANGED <<dots, req, locals, granted, lateBlind, initial, scenario, rest>>

PlaceOne(r) ==
  \/ PlaceOneStart(r)
  \/ PlaceOneFetchSession(r)
  \/ PlaceOneLookup(r)
  \/ PlaceOneRefetch(r)
  \/ PlaceOneInsertBlind(r)
  \/ PlaceOneUpdateBlind(r)
  \/ PlaceOneInsertPaid(r)
  \/ PlaceOneUpdatePaid(r)

\* ------------------------------- POST /api/dots/place-batch (placeBatch)
\* acceptCount taken as dots.length whatever capacity remains.
Min_second(a, b) == b

Min(a, b) == IF a < b THEN a ELSE b
Max(a, b) == IF a > b THEN a ELSE b

\* Arrays of n dots, each with a clientDotId, named by first use.
Batches(n, used) ==
  {b \in [1..n -> ClientDotIds] :
     \A i \in 1..n : Usable(b[i], used \cup {b[j] : j \in 1..(i - 1)})}

PlaceBatchStart(r) ==
  /\ CanStart(r)
  /\ \E n \in 1..MaxBatch :
       \E pts \in [1..n -> Points] :
         IF \E i \in 1..n : InvalidCoordinates(pts[i][1], pts[i][2])
         THEN /\ req' = [req EXCEPT ![r] =
                   [NoReq EXCEPT !.op = "placeBatch", !.points = pts]]
              /\ Finish(r, Reply("VALIDATION", NoSession))
         ELSE \E sessionId \in Sessions \cup {UnknownSession},
                 ids \in Batches(n, UsedIds) :
                /\ req' = [req EXCEPT ![r] =
                     [NoReq EXCEPT !.op = "placeBatch", !.sessionId = sessionId,
                                   !.dots = ids, !.points = pts,
                                   !.replay = Accepted(sessionId, ids)]]
                /\ Goto(r, "batch_fetch")
  /\ UNCHANGED <<tables, locals, history>>

\* Fetch session row, then acceptCount and the branch taken on it.
PlaceBatchFetchSession(r) ==
  /\ pc[r] = "batch_fetch"
  /\ LET row == SelectSession(req[r].sessionId)
         remainingFree == Max(0, FREE_DOTS - row.blind_dots_used)
         count == IF row.revealed THEN Min(row.credits, Len(req[r].dots))
                  ELSE Min(remainingFree, Len(req[r].dots))
     IN
       /\ session' = [session EXCEPT ![r] = row]
       /\ IF row = NoSession
          THEN /\ Finish(r, Reply("NOT_FOUND", NoSession))
               /\ UNCHANGED acceptCount
          ELSE /\ acceptCount' = [acceptCount EXCEPT ![r] = count]
               /\ IF ~row.revealed
                  THEN IF count = 0
                       THEN IF row.blind_dots_used >= FREE_DOTS
                            THEN Goto(r, "batch_update_blind")
                            ELSE Finish(r, Reply("NO_FREE_DOTS", row))
                       ELSE Goto(r, "batch_insert_blind")
                  ELSE IF count = 0
                       THEN Finish(r, Reply("INSUFFICIENT_CREDITS", row))
                       ELSE Goto(r, "batch_insert_paid")
  /\ UNCHANGED <<tables, req, insertedDots, idx, history>>

\* One pass of the insert loop: insert dotsToInsert[idx]; on a unique
\* violation the existing row (rows are never deleted) is pushed instead.
PlaceBatchInsert(r, phase, after) ==
  LET clientDotId == req[r].dots[idx[r] + 1] IN
    /\ IF UniqueViolation(dots, req[r].sessionId, clientDotId)
       THEN UNCHANGED <<dots, lateBlind>>
       ELSE StoreDot(Row(req[r].sessionId, phase, clientDotId))
    /\ insertedDots' = [insertedDots EXCEPT ![r] = Append(@, clientDotId)]
    /\ idx' = [idx EXCEPT ![r] = @ + 1]
    /\ IF idx[r] + 1 = acceptCount[r]
       THEN Goto(r, after)
       ELSE UNCHANGED <<pc, resp>>
    /\ UNCHANGED <<sessions, req, session, acceptCount, granted, everRevealed,
                   revealFlips, initial, scenario, rest>>

PlaceBatchInsertBlind(r) ==
  /\ pc[r] = "batch_insert_blind"
  /\ PlaceBatchInsert(r, "blind", "batch_update_blind")

PlaceBatchInsertPaid(r) ==
  /\ pc[r] = "batch_insert_paid"
  /\ PlaceBatchInsert(r, "paid", "batch_update_paid")

\* The session write of the blind branch: revealed alone when nothing was
\* accepted, else blind_dots_used + insertedDots.length and shouldReveal.
PlaceBatchUpdateBlind(r) ==
  /\ pc[r] = "batch_update_blind"
  /\ LET actualInsertedCount == Len(insertedDots[r])
         newBlindDotsUsed == session[r].blind_dots_used + actualInsertedCount
         shouldReveal == ShouldReveal(newBlindDotsUsed)
         current == sessions[req[r].sessionId]
         updatedSession ==
           IF acceptCount[r] = 0
           THEN [current EXCEPT !.revealed = TRUE]
           ELSE [current EXCEPT !.blind_dots_used = newBlindDotsUsed,
                                !.revealed = shouldReveal]
     IN /\ WriteSession(req[r].sessionId, updatedSession)
        /\ Finish(r, [Reply(IF acceptCount[r] = 0 THEN "NO_FREE_DOTS" ELSE "OK",
                            updatedSession)
                        EXCEPT !.accepted = insertedDots[r]])
  /\ UNCHANGED <<dots, req, locals, granted, lateBlind, initial, scenario, rest>>

\* The session write of the revealed branch: credits - insertedDots.length.
PlaceBatchUpdatePaid(r) ==
  /\ pc[r] = "batch_update_paid"
  /\ LET actualInsertedCount == Len(insertedDots[r])
         updatedSession == [sessions[req[r].sessionId] EXCEPT
                              !.credits = session[r].credits - actualInsertedCount]
     IN /\ WriteSession(req[r].sessionId, updatedSession)
        /\ Finish(r, [Reply("OK", updatedSession)
                        EXCEPT !.accepted = insertedDots[r]])
  /\ UNCHANGED <<dots, req, locals, granted, lateBlind, initial, scenario, rest>>

PlaceBatch(r) ==
  \/ PlaceBatchStart(r)
  \/ PlaceBatchFetchSession(r)
  \/ PlaceBatchInsertBlind(r)
  \/ PlaceBatchInsertPaid(r)
  \/ PlaceBatchUpdateBlind(r)
  \/ PlaceBatchUpdatePaid(r)

\* ----------------------------------------- POST /api/session/reveal (reveal)
RevealStart(r) ==
  /\ CanStart(r)
  /\ \E sessionId \in Sessions \cup {UnknownSession} :
       req' = [req EXCEPT ![r] =
                 [NoReq EXCEPT !.op = "reveal", !.sessionId = sessionId]]
  /\ Goto(r, "reveal_fetch")
  /\ UNCHANGED <<tables, locals, history>>

\* The quota check of the reveal route left out.
QuotaNotMet_never(row) == FALSE

\* if (session.blind_dots_used < 10): 'Must place 10 blind dots before revealing'
QuotaNotMet(row) == row.blind_dots_used < FREE_DOTS

RevealFetchSession(r) ==
  /\ pc[r] = "reveal_fetch"
  /\ LET row == SelectSession(req[r].sessionId) IN
       /\ session' = [session EXCEPT ![r] = row]
       /\ IF row = NoSession
          THEN Finish(r, Reply("NOT_FOUND", NoSession))
          ELSE IF QuotaNotMet(row)
          THEN Finish(r, Reply("QUOTA_NOT_MET", NoSession))
          ELSE Goto(r, "reveal_update")
  /\ UNCHANGED <<tables, req, acceptCount, insertedDots, idx, history>>

RevealUpdate(r) ==
  /\ pc[r] = "reveal_update"
  /\ LET updatedSession == [sessions[req[r].sessionId] EXCEPT !.revealed = TRUE]
     IN /\ WriteSession(req[r].sessionId, updatedSession)
        /\ Finish(r, Reply("OK", updatedSession))
  /\ UNCHANGED <<dots, req, locals, granted, lateBlind, initial, scenario, rest>>

Reveal(r) ==
  \/ RevealStart(r)
  \/ RevealFetchSession(r)
  \/ RevealUpdate(r)

\* --------------------------------- GET /api/dots/all (listAllPlacements)
\* The query of /api/dots/mine: the rows of the asking session only.
SelectAllDots_own(sessionId) ==
  [k \in RowKinds |-> IF k.session_id = sessionId THEN dots[k] ELSE 0]

\* .from('dots').select(...).order('created_at'): every row, of every session,
\* whoever asks.
SelectAllDots(sessionId) == dots

AllStart(r) ==
  /\ CanStart(r)
  /\ \E sessionId \in Sessions \cup {UnknownSession} :
       req' = [req EXCEPT ![r] =
                 [NoReq EXCEPT !.op = "all", !.sessionId = sessionId]]
  /\ Goto(r, "all_fetch_session")
  /\ UNCHANGED <<tables, locals, history>>

AllFetchSession(r) ==
  /\ pc[r] = "all_fetch_session"
  /\ LET row == SelectSession(req[r].sessionId) IN
       /\ session' = [session EXCEPT ![r] = row]
       /\ IF row = NoSession
          THEN Finish(r, Reply("NOT_FOUND", NoSession))
          ELSE IF ~row.revealed
          THEN Finish(r, Reply("NOT_REVEALED", NoSession))
          ELSE Goto(r, "all_fetch_dots")
  /\ UNCHANGED <<tables, req, acceptCount, insertedDots, idx, history>>

AllFetchDots(r) ==
  /\ pc[r] = "all_fetch_dots"
  /\ Finish(r, [Reply("OK", NoSession) EXCEPT !.dots = SelectAllDots(req[r].sessionId)])
  /\ UNCHANGED <<tables, req, locals, history>>

All(r) ==
  \/ AllStart(r)
  \/ AllFetchSession(r)
  \/ AllFetchDots(r)

\* ------------------------------------- POST /api/stripe/webhook (grantCredits)
PriceIds == {"price_50", "price_100", "price_500"}
PRICE_TO_CREDITS ==
  [p \in PriceIds |-> IF p = "price_50" THEN CREDITS_50
                      ELSE IF p = "price_100" THEN CREDITS_100 ELSE CREDITS_500]

\* stripe.webhooks.constructEvent accepting whatever signature is sent.
SignatureVerified_any(signature) == TRUE

\* The stripe-signature header is present and constructEvent accepts it.
SignatureVerified(signature) == signature = "valid"

\* Signature, event type, client_reference_id and line-item price are checked
\* before the database is touched.
WebhookStart(r) ==
  /\ CanStart(r)
  /\ LET rejected == [req EXCEPT ![r] = [NoReq EXCEPT !.op = "webhook"]] IN
     \E signature \in {"missing", "invalid", "valid"} :
       IF ~SignatureVerified(signature)
       THEN req' = rejected /\ Finish(r, Reply("BAD_SIGNATURE", NoSession))
       ELSE \E type \in {"checkout.session.completed", "payment_intent.created"} :
         IF type # "checkout.session.completed"
         THEN req' = rejected /\ Finish(r, Reply("OK", NoSession))
         ELSE \E sessionId \in Sessions \cup {UnknownSession, NULL},
                 priceId \in PriceIds \cup {"price_other", NULL} :
           IF sessionId = NULL \/ priceId = NULL
           THEN req' = rejected /\ Finish(r, Reply("MISSING_DATA", NoSession))
           ELSE IF priceId \notin PriceIds
           THEN req' = rejected /\ Finish(r, Reply("UNKNOWN_PRICE", NoSession))
           ELSE /\ req' = [req EXCEPT ![r] =
                     [NoReq EXCEPT !.op = "webhook", !.sessionId = sessionId,
                                   !.creditsToGrant = PRICE_TO_CREDITS[priceId],
                                   !.signature = signature, !.type = type,
                                   !.priceId = priceId]]
                /\ Goto(r, "webhook_fetch")
  /\ UNCHANGED <<tables, locals, history>>

WebhookFetchSession(r) ==
  /\ pc[r] = "webhook_fetch"
  /\ LET row == SelectSession(req[r].sessionId) IN
       /\ session' = [session EXCEPT ![r] = row]
       /\ IF row = NoSession
          THEN Finish(r, Reply("NOT_FOUND", NoSession))
          ELSE Goto(r, "webhook_rpc")
  /\ UNCHANGED <<tables, req, acceptCount, insertedDots, idx, history>>

\* increment_credits(p_session_id, p_amount): one UPDATE ... credits + p_amount.
increment_credits(row, p_amount) == [row EXCEPT !.credits = @ + p_amount]

WebhookIncrementCredits(r) ==
  /\ pc[r] = "webhook_rpc"
  /\ WriteSession(req[r].sessionId,
                  increment_credits(sessions[req[r].sessionId], req[r].creditsToGrant))
  /\ granted' = [granted EXCEPT ![req[r].sessionId] = @ + req[r].creditsToGrant]
  /\ Finish(r, Reply("OK", NoSession))
  /\ UNCHANGED <<dots, req, locals, lateBlind, initial, scenario, rest>>

Webhook(r) ==
  \/ WebhookStart(r)
  \/ WebhookFetchSession(r)
  \/ WebhookIncrementCredits(r)

Next == \E r \in Reqs : PlaceOne(r) \/ PlaceBatch(r) \/ Reveal(r) \/ All(r) \/ Webhook(r)

Spec == Init /\ [][Next]_vars

\* ------------------------------------------ one caller, one request at a time
\* A participant as the sessions table creates it: blind_dots_used DEFAULT 0,
\* revealed DEFAULT false, credits DEFAULT 0, and no dots.
NewSession == SessionRow(0, FALSE, 0)

SeqInit ==
  /\ sessions = [s \in Sessions |-> NewSession]
  /\ dots = EmptyDots
  /\ pc = [r \in Reqs |-> "idle"]
  /\ req = [r \in Reqs |-> NoReq]
  /\ session = [r \in Reqs |-> NoSession]
  /\ acceptCount = [r \in Reqs |-> 0]
  /\ insertedDots = [r \in Reqs |-> <<>>]
  /\ idx = [r \in Reqs |-> 0]
  /\ resp = [r \in Reqs |-> NoResp]
  /\ granted = [s \in Sessions |-> 0]
  /\ everRevealed = [s \in Sessions |-> FALSE]
  /\ revealFlips = [s \in Sessions |-> 0]
  /\ lateBlind = [s \in Sessions |-> 0]
  /\ initial = sessions
  /\ scenario = [s \in Sessions |-> 0]
  /\ before = tables
  /\ faults = 0
  /\ color_hex = InitColors
  /\ candidateHex = [r \in Reqs |-> NULL]
  /\ serverSession = sessions["s1"]
  /\ isRevealed = sessions["s1"].revealed
  /\ UiInit

\* The request is a new placement: a placeOne that passed validation and
\* carries no clientDotId or one that was not stored when it was sent.
NewPlacement(r) ==
  /\ req[r].op = "placeOne" /\ req[r].sessionId \in Sessions
  /\ ~req[r].replay

\* The history of placements made one at a time, once request r has returned.
Counted(r) ==
  [s \in Sessions |->
     IF s # req[r].sessionId \/ req[r].op = "all" THEN scenario[s]
     ELSE IF NewPlacement(r) /\ scenario[s] >= 0 THEN scenario[s] + 1
     ELSE -1]

\* The caller goes on while it has placements left to try.  It acts for
\* participant s1 and buys the 50-credit bundle at most once.
SeqBudget(r) ==
  /\ req[r].sessionId \in {"s1", UnknownSession}
  /\ granted["s1"] <= CREDITS_50
  /\ granted["s1"] - sessions["s1"].credits < MaxSeqSpent
  /\ Counted(r)["s1"] < MaxSeqPlacements

\* The caller receives the response; the handler's locals are gone and the
\* caller may send its next request.
Return(r) ==
  /\ pc[r] = "done"
  /\ SeqBudget(r)
  /\ pc' = [pc EXCEPT ![r] = "idle"]
  /\ req' = [req EXCEPT ![r] = NoReq]
  /\ resp' = [resp EXCEPT ![r] = NoResp]
  /\ session' = [session EXCEPT ![r] = NoSession]
  /\ acceptCount' = [acceptCount EXCEPT ![r] = 0]
  /\ insertedDots' = [insertedDots EXCEPT ![r] = <<>>]
  /\ idx' = [idx EXCEPT ![r] = 0]
  /\ scenario' = Counted(r)
  /\ before' = tables
  /\ UNCHANGED <<tables, granted, everRevealed, revealFlips, lateBlind, initial,
                 faults, color_hex, candidateHex, serverSession, isRevealed, ui>>

\* One caller: a request is sent only after the previous one has returned.
SeqNext ==
  \E r \in {1} :
    PlaceOne(r) \/ PlaceBatch(r) \/ Reveal(r) \/ All(r) \/ Webhook(r) \/ Return(r)

SpecSeq == SeqInit /\ [][SeqNext]_vars


\* -------------------------------- POST /api/session/init (initParticipant)
MAX_RETRIES == 10         \* const maxRetries = 10

ColorInputs == {"blue", " Blue ", "red", "grey"}

\* String(colorName).trim().toLowerCase()
Canonical(colorName) == IF colorName = " Blue " THEN "blue" ELSE colorName

\* .from('sessions').select('color_hex'), normalized.
UsedHexes == {color_hex[id] : id \in DOMAIN color_hex} \ {NULL}

\* The first hex of the pool that is not used, or NULL (pool exhausted).
getAvailableHex(colorName, usedHexes) ==
  IF colorName \notin ColorNames THEN NULL
  ELSE LET pool == COLOR_POOLS[colorName]
           free == {i \in 1..Len(pool) : pool[i] \notin usedHexes}
       IN IF free = {} THEN NULL
          ELSE pool[CHOOSE i \in free : \A j \in free : i <= j]

\* The UNIQUE constraint of sessions.color_hex left out.
HexTaken_never(hex) == FALSE

\* color_hex TEXT NOT NULL UNIQUE: the insert fails when a row holds the hex.
HexTaken(hex) == hex \in UsedHexes

SessionInitStart(r) ==
  /\ CanStart(r)
  /\ \E colorName \in ColorInputs :
       /\ req' = [req EXCEPT ![r] =
            [NoReq EXCEPT !.op = "init", !.colorName = Canonical(colorName)]]
       /\ IF Canonical(colorName) \notin ColorNames
          THEN Finish(r, Reply("VALIDATION", NoSession))
          ELSE Goto(r, "init_fetch")
  /\ UNCHANGED <<tables, locals, history>>

\* The first read of the used hexes: 'That color is full' when none is left.
SessionInitFetch(r) ==
  /\ pc[r] = "init_fetch"
  /\ IF getAvailableHex(req[r].colorName, UsedHexes) = NULL
     THEN Finish(r, Reply("COLOR_FULL", NoSession))
     ELSE Goto(r, "init_refetch")
  /\ UNCHANGED <<tables, req, locals, history>>

\* Top of the retry loop: re-read the used hexes and pick the candidate.
SessionInitRefetch(r) ==
  /\ pc[r] = "init_refetch"
  /\ LET candidate == getAvailableHex(req[r].colorName, UsedHexes) IN
       IF candidate = NULL
       THEN /\ Finish(r, Reply("COLOR_FULL", NoSession))
            /\ UNCHANGED candidateHex
       ELSE /\ candidateHex' = [candidateHex EXCEPT ![r] = candidate]
            /\ Goto(r, "init_insert")
  /\ UNCHANGED <<tables, req, locals, granted, everRevealed, revealFlips,
                 lateBlind, initial, scenario, before, faults, color_hex,
                 serverSession, isRevealed, ui>>

\* The insert: on a unique violation the loop tries again, up to maxRetries
\* attempts (idx counts them); else the row is stored with its defaults.
SessionInitInsert(r) ==
  /\ pc[r] = "init_insert"
  /\ IF HexTaken(candidateHex[r])
     THEN /\ idx' = [idx EXCEPT ![r] = @ + 1]
          /\ IF idx[r] + 1 < MAX_RETRIES
             THEN Goto(r, "init_refetch")
             ELSE Finish(r, Reply("COLOR_FULL", NoSession))
          /\ UNCHANGED color_hex
     ELSE /\ color_hex' = [color_hex EXCEPT ![uuidv4[r]] = candidateHex[r]]
          /\ Finish(r, Reply("OK", SessionRow(0, FALSE, 0)))
          /\ UNCHANGED idx
  /\ UNCHANGED <<tables, req, session, acceptCount, insertedDots, granted,
                 everRevealed, revealFlips, lateBlind, initial, scenario,
                 before, faults, candidateHex, serverSession, isRevealed, ui>>

SessionInit(r) ==
  \/ SessionInitStart(r)
  \/ SessionInitFetch(r)
  \/ SessionInitRefetch(r)
  \/ SessionInitInsert(r)

\* Every route, with participants joining while others place dots.
JoinNext ==
  \E r \in Reqs :
    \/ SessionInit(r) \/ PlaceOne(r) \/ PlaceBatch(r) \/ Reveal(r) \/ All(r)
    \/ Webhook(r)

SpecJoin == Init /\ [][JoinNext]_vars

\* ------------------------- a batch beside the same dots sent one at a time
\* Ledgers both participants start from: free dots left with or without a
\* 50-credit bundle bought before reveal, or revealed with credits left.
PairRows ==
  {SessionRow(FREE_DOTS - k, FALSE, c) : k \in 1..MaxInitRemaining,
                                        c \in {0, CREDITS_50}}
    \cup {SessionRow(FREE_DOTS, TRUE, c) : c \in 0..MaxInitCredits}

PairInit ==
  /\ sessions \in {[s \in Sessions |-> row] : row \in PairRows}
  /\ dots = InitDots(sessions)
  /\ pc = [r \in Reqs |-> "idle"]
  /\ req = [r \in Reqs |-> NoReq]
  /\ session = [r \in Reqs |-> NoSession]
  /\ acceptCount = [r \in Reqs |-> 0]
  /\ insertedDots = [r \in Reqs |-> <<>>]
  /\ idx = [r \in Reqs |-> 0]
  /\ resp = [r \in Reqs |-> NoResp]
  /\ granted = [s \in Sessions |-> InitGranted(sessions[s])]
  /\ everRevealed = [s \in Sessions |-> sessions[s].revealed]
  /\ revealFlips = [s \in Sessions |-> IF sessions[s].revealed THEN 1 ELSE 0]
  /\ lateBlind = [s \in Sessions |-> 0]
  /\ initial = sessions
  /\ scenario = [s \in Sessions |-> 0]
  /\ before = tables
  /\ faults = 0
  /\ color_hex = InitColors
  /\ candidateHex = [r \in Reqs |-> NULL]
  /\ serverSession = sessions["s1"]
  /\ isRevealed = sessions["s1"].revealed
  /\ UiInit

\* Request b is a place-batch for s1 that passed validation.
BatchForS1(b) ==
  /\ req[b].op = "placeBatch" /\ req[b].sessionId = "s1"

\* Request r is a placeOne for s2 carrying the next dot of batch b.
NextItemForS2(r, b) ==
  /\ NewPlacement(r) /\ req[r].sessionId = "s2"
  /\ scenario["s2"] >= 0 /\ scenario["s2"] < Len(req[b].dots)
  /\ req[r].clientDotId = req[b].dots[scenario["s2"] + 1]

\* The caller of placeOne sends the next dot of the list once the previous
\* one was accepted, and stops at the first rejection.
PairReturn(r) ==
  /\ pc[r] = "done"
  /\ resp[r].kind = "OK"
  /\ \E b \in Reqs \ {r} :
       /\ BatchForS1(b) /\ NextItemForS2(r, b)
       /\ scenario["s2"] + 1 < Len(req[b].dots)
  /\ pc' = [pc EXCEPT ![r] = "idle"]
  /\ req' = [req EXCEPT ![r] = NoReq]
  /\ resp' = [resp EXCEPT ![r] = NoResp]
  /\ session' = [session EXCEPT ![r] = NoSession]
  /\ acceptCount' = [acceptCount EXCEPT ![r] = 0]
  /\ insertedDots' = [insertedDots EXCEPT ![r] = <<>>]
  /\ idx' = [idx EXCEPT ![r] = 0]
  /\ scenario' = Counted(r)
  /\ UNCHANGED <<tables, granted, everRevealed, revealFlips, lateBlind, initial,
                 rest>>

PairNext == \E r \in Reqs : PlaceOne(r) \/ PlaceBatch(r) \/ PairReturn(r)

SpecPair == PairInit /\ [][PairNext]_vars

\* ------------------------------------------------- failing database calls
\* A Supabase call returns { data: null, error }.  The code of the error is
\* whatever the database or PostgREST reports; the handlers classify it.
ErrorCodes == {"PGRST116", "57014"}

\* errorCode === '23505' || errorCode === 'PGRST116' || ...
isUniqueViolation(errorCode) == errorCode \in {"23505", "PGRST116"}

\* The call request r is about to make fails.
Fails(r) ==
  /\ faults < MaxFaults
  /\ faults' = faults + 1
  /\ req' = [req EXCEPT ![r].fault = TRUE]

\* if (sessionError || !session): 404 'Session not found'.
PlaceOneFetchSessionFault(r) ==
  /\ pc[r] = "place_fetch"
  /\ Fails(r)
  /\ Finish(r, Reply("NOT_FOUND", NoSession))
  /\ UNCHANGED <<tables, locals, granted, everRevealed, revealFlips, lateBlind,
                 initial, scenario, before, color_hex, candidateHex,
                 serverSession, isRevealed, ui>>

\* if (existingDot && !lookupError) is false: the handler goes on to insert.
PlaceOneLookupFault(r) ==
  /\ pc[r] = "place_lookup"
  /\ Fails(r)
  /\ Goto(r, "place_insert_blind")
  /\ UNCHANGED <<tables, locals, granted, everRevealed, revealFlips, lateBlind,
                 initial, scenario, before, color_hex, candidateHex,
                 serverSession, isRevealed, ui>>

\* currentSession is null: after the lookup the handler falls through to the
\* insert, after a unique violation to 500 'Failed to place dot'.
PlaceOneRefetchFault(r) ==
  /\ pc[r] \in {"place_refetch", "place_refetch_dup"}
  /\ Fails(r)
  /\ IF pc[r] = "place_refetch"
     THEN Goto(r, "place_insert_blind")
     ELSE Finish(r, Reply("STORAGE_ERROR", NoSession))
  /\ UNCHANGED <<tables, locals, granted, everRevealed, revealFlips, lateBlind,
                 initial, scenario, before, color_hex, candidateHex,
                 serverSession, isRevealed, ui>>

\* dotError: an error classified as a unique violation on a request with a
\* clientDotId is answered idempotently, any other with 500.
PlaceOneInsertFault(r) ==
  /\ pc[r] \in {"place_insert_blind", "place_insert_paid"}
  /\ Fails(r)
  /\ \E errorCode \in ErrorCodes :
       IF /\ pc[r] = "place_insert_blind"
          /\ isUniqueViolation(errorCode) /\ req[r].clientDotId # NULL
       THEN Goto(r, "place_refetch_dup")
       ELSE Finish(r, Reply("STORAGE_ERROR", NoSession))
  /\ UNCHANGED <<tables, locals, granted, everRevealed, revealFlips, lateBlind,
                 initial, scenario, before, color_hex, candidateHex,
                 serverSession, isRevealed, ui>>

\* updateError: 500 'Failed to update session'; the dot stays inserted.
PlaceOneUpdateFault(r) ==
  /\ pc[r] \in {"place_update_blind", "place_update_paid"}
  /\ Fails(r)
  /\ Finish(r, Reply("STORAGE_ERROR", NoSession))
  /\ UNCHANGED <<tables, locals, granted, everRevealed, revealFlips, lateBlind,
                 initial, scenario, before, color_hex, candidateHex,
                 serverSession, isRevealed, ui>>

PlaceOneFault(r) ==
  \/ PlaceOneFetchSessionFault(r)
  \/ PlaceOneLookupFault(r)
  \/ PlaceOneRefetchFault(r)
  \/ PlaceOneInsertFault(r)
  \/ PlaceOneUpdateFault(r)

\* if (sessionError): 500 'Failed to fetch session'.
PlaceBatchFetchSessionFault(r) ==
  /\ pc[r] = "batch_fetch"
  /\ Fails(r)
  /\ Finish(r, Reply("STORAGE_ERROR", NoSession))
  /\ UNCHANGED <<tables, locals, granted, everRevealed, revealFlips, lateBlind,
                 initial, scenario, before, color_hex, candidateHex,
                 serverSession, isRevealed, ui>>

\* insertError in the loop: an error classified as a unique violation pushes
\* the existing row if there is one; any other is logged.  The loop goes on.
PlaceBatchInsertFault(r) ==
  /\ pc[r] \in {"batch_insert_blind", "batch_insert_paid"}
  /\ Fails(r)
  /\ LET clientDotId == req[r].dots[idx[r] + 1] IN
       \E errorCode \in ErrorCodes :
         IF /\ isUniqueViolation(errorCode)
            /\ UniqueViolation(dots, req[r].sessionId, clientDotId)
         THEN insertedDots' = [insertedDots EXCEPT ![r] = Append(@, clientDotId)]
         ELSE UNCHANGED insertedDots
  /\ idx' = [idx EXCEPT ![r] = @ + 1]
  /\ IF idx[r] + 1 = acceptCount[r]
     THEN Goto(r, IF pc[r] = "batch_insert_blind" THEN "batch_update_blind"
                  ELSE "batch_update_paid")
     ELSE UNCHANGED <<pc, resp>>
  /\ UNCHANGED <<tables, session, acceptCount, granted, everRevealed,
                 revealFlips, lateBlind, initial, scenario, before, color_hex,
                 candidateHex, serverSession, isRevealed, ui>>

\* updateError: 500 'Failed to update session'; the dots stay inserted.
PlaceBatchUpdateFault(r) ==
  /\ pc[r] \in {"batch_update_blind", "batch_update_paid"}
  /\ Fails(r)
  /\ Finish(r, Reply("STORAGE_ERROR", NoSession))
  /\ UNCHANGED <<tables, locals, granted, everRevealed, revealFlips, lateBlind,
                 initial, scenario, before, color_hex, candidateHex,
                 serverSession, isRevealed, ui>>

PlaceBatchFault(r) ==
  \/ PlaceBatchFetchSessionFault(r)
  \/ PlaceBatchInsertFault(r)
  \/ PlaceBatchUpdateFault(r)

\* One caller, one request at a time, and database calls that may fail.
FaultNext ==
  \E r \in {1} :
    \/ PlaceOne(r) \/ PlaceBatch(r) \/ Webhook(r) \/ Return(r)
    \/ PlaceOneFault(r) \/ PlaceBatchFault(r)

SpecFault == Init /\ [][FaultNext]_vars

\* ------------------------------ callers that go on while others are waiting
\* The callers go on until s1 holds more than its 10 blind dots or has been
\* revealed a second time.
RaceBudget ==
  /\ CountDots(dots, "s1", "blind") <= FREE_DOTS
  /\ revealFlips["s1"] <= 1

\* A caller of participant s1 receives its response while a request of
\* another caller is still in flight, and may send its next request.
RaceReturn(r) ==
  /\ pc[r] = "done"
  /\ req[r].sessionId = "s1"
  /\ \E q \in Reqs \ {r} : pc[q] \notin {"idle", "done"}
  /\ RaceBudget
  /\ pc' = [pc EXCEPT ![r] = "idle"]
  /\ req' = [req EXCEPT ![r] = NoReq]
  /\ resp' = [resp EXCEPT ![r] = NoResp]
  /\ session' = [session EXCEPT ![r] = NoSession]
  /\ acceptCount' = [acceptCount EXCEPT ![r] = 0]
  /\ insertedDots' = [insertedDots EXCEPT ![r] = <<>>]
  /\ idx' = [idx EXCEPT ![r] = 0]
  /\ UNCHANGED <<tables, history>>

\* Placements and explicit reveals from several callers.
RaceNext ==
  \E r \in Reqs : PlaceOne(r) \/ PlaceBatch(r) \/ Reveal(r) \/ RaceReturn(r)

SpecRace == Init /\ [][RaceNext]_vars

\* ----------------------------------- the queued client of participant s1
MAX_IN_FLIGHT == 3        \* const MAX_IN_FLIGHT = 3

\* Everything but the client's own state.
serverVars == <<tables, pc, req, resp, locals, granted, everRevealed,
                revealFlips, lateBlind, initial, scenario, before, faults,
                color_hex, candidateHex>>

\* Placements whose fetch has been issued and has neither resolved nor
\* rejected.
InFlight == {k \in ClientUuids : flight[k].status \in {"sent", "arrived"}}
Clicks == Cardinality({k \in ClientUuids : flight[k].status # "none"})
pendingBlindSize == Cardinality(pendingBlindIds)

\* remainingDots: derived from serverSession and the pending blind dots.
remainingDots ==
  IF ~isRevealed
  THEN Max(0, FREE_DOTS - serverSession.blind_dots_used - pendingBlindSize)
  ELSE 0

\* handlePointerDown: a click is ignored in the blind phase when no dots
\* remain; otherwise it gets a new clientDotId, coordinates clamped to the
\* unit square and the phase of isRevealed, a blind one is drawn and its id
\* added to pendingBlindIds, and it is appended to pendingPlacements.
ClientPointerDown ==
  /\ Clicks < MaxClicks
  /\ isRevealed \/ remainingDots # 0
  /\ LET clientDotId == randomUUID[Clicks + 1]
         requestPhase == IF isRevealed THEN "paid" ELSE "blind" IN
       /\ localDots' = IF ~isRevealed THEN Append(localDots, clientDotId)
                       ELSE localDots
       /\ pendingBlindIds' = IF ~isRevealed
                             THEN pendingBlindIds \cup {clientDotId}
                             ELSE pendingBlindIds
       /\ pendingPlacements' =
            Append(pendingPlacements,
                   [clientDotId |-> clientDotId, phase |-> requestPhase])
       /\ flight' = [flight EXCEPT ![clientDotId] =
            [NoFlight EXCEPT !.status = "queued", !.phase = requestPhase]]
  /\ UNCHANGED <<serverVars, batchUi, pageUi, serverSession, isRevealed, inFlightCount,
                 sentOrder, allRequests>>

\* The queue guard with no limit on the requests in flight.
MayProcess_always(count) == TRUE

\* if (inFlightCount >= MAX_IN_FLIGHT ...) return
MayProcess(count) == count < MAX_IN_FLIGHT

\* The queue effect and the start of processNext: the first waiting placement
\* is taken off the queue, counted in flight and sent to /api/dots/place; the
\* handler keeps the isRevealed and serverSession of this render.
ClientProcessNext ==
  /\ MayProcess(inFlightCount)
  /\ pendingPlacements # <<>>
  /\ LET next == Head(pendingPlacements) IN
       /\ inFlightCount' = inFlightCount + 1
       /\ pendingPlacements' = Tail(pendingPlacements)
       /\ flight' = [flight EXCEPT ![next.clientDotId] =
            [@ EXCEPT !.status = "sent", !.wasRevealed = isRevealed,
                      !.snapRevealed = serverSession.revealed]]
       /\ sentOrder' = Append(sentOrder, next.clientDotId)
  /\ UNCHANGED <<serverVars, batchUi, pageUi, serverSession, isRevealed, pendingBlindIds,
                 localDots, allRequests>>

\* A request of the client reaches the route; its body passes the validation
\* (the session id is the client's, the coordinates were clamped).
ClientArrive(r) ==
  /\ CanStart(r)
  /\ \E k \in ClientUuids, p \in {q \in Points : ~InvalidCoordinates(q[1], q[2])} :
       /\ flight[k].status = "sent"
       /\ req' = [req EXCEPT ![r] =
            [NoReq EXCEPT !.op = "placeOne", !.sessionId = "s1",
                          !.clientDotId = k, !.points = <<p>>,
                          !.client = TRUE, !.phase = flight[k].phase]]
       /\ flight' = [flight EXCEPT ![k].status = "arrived"]
  /\ Goto(r, "place_fetch")
  /\ UNCHANGED <<batchUi, pageUi, tables, locals, granted, everRevealed, revealFlips, lateBlind,
                 initial, scenario, before, faults, color_hex, candidateHex,
                 serverSession, isRevealed, pendingPlacements, pendingBlindIds,
                 inFlightCount, localDots, sentOrder, allRequests>>

\* setServerSession adopting every snapshot.
AdoptSnapshot_always(prev, updatedSession) == updatedSession

\* setServerSession(prev => ...): "only accept if blindDotsUsed >= current".
AdoptSnapshot(prev, updatedSession) ==
  IF updatedSession.blind_dots_used >= prev.blind_dots_used
  THEN updatedSession ELSE prev

\* The finally block with the removal left to paid requests.
RemovePending_paid(ids, requestClientDotId, requestPhase) ==
  IF requestPhase = "paid" THEN ids \ {requestClientDotId} ELSE ids

\* finally: if (requestPhase === 'blind') the id leaves pendingBlindIds.
RemovePending(ids, requestClientDotId, requestPhase) ==
  IF requestPhase = "blind" THEN ids \ {requestClientDotId} ELSE ids

\* The end of processNext: setInFlightCount(prev => prev - 1) and finally.
Settle(k) ==
  /\ inFlightCount' = inFlightCount - 1
  /\ pendingBlindIds' = RemovePending(pendingBlindIds, k, flight[k].phase)

\* The caller has read the response: the handler's locals are gone.
FreeSlot(r) ==
  /\ pc' = [pc EXCEPT ![r] = "idle"]
  /\ req' = [req EXCEPT ![r] = NoReq]
  /\ resp' = [resp EXCEPT ![r] = NoResp]
  /\ session' = [session EXCEPT ![r] = NoSession]
  /\ acceptCount' = [acceptCount EXCEPT ![r] = 0]
  /\ insertedDots' = [insertedDots EXCEPT ![r] = <<>>]
  /\ idx' = [idx EXCEPT ![r] = 0]

RemoveDot(marks, clientDotId) == SelectSeq(marks, LAMBDA d : d # clientDotId)

\* The response handling of processNext. A success and a NO_FREE_DOTS body
\* carry a snapshot, which goes through setServerSession and
\* setIsRevealed(updatedSession.revealed); a snapshot that reveals clears the
\* marks and starts fetchAllDots, which is awaited before the request is
\* settled; a NO_FREE_DOTS keeps the first 10 - blindDotsUsed marks; any other
\* error removes the mark of this placement. The tests on isRevealed and
\* serverSession.revealed read the values of the render that sent the request.
ClientReceive(r) ==
  /\ pc[r] = "done" /\ req[r].client
  /\ LET k == req[r].clientDotId
         data == resp[r]
         carries == data.kind \in {"OK", "NO_FREE_DOTS"} /\ data.session # NoSession
         reveals == /\ carries
                    /\ IF data.kind = "OK"
                       THEN ~flight[k].snapRevealed /\ data.session.revealed
                       ELSE data.session.blind_dots_used >= FREE_DOTS
                              /\ data.session.revealed
     IN
       /\ serverSession' = IF carries
                           THEN AdoptSnapshot(serverSession, data.session)
                           ELSE serverSession
       /\ isRevealed' = IF carries THEN data.session.revealed ELSE isRevealed
       /\ localDots' =
            IF reveals THEN <<>>
            ELSE IF data.kind = "OK" THEN localDots
            ELSE IF flight[k].wasRevealed THEN localDots
            ELSE IF data.kind = "NO_FREE_DOTS"
              THEN IF carries
                   THEN SubSeq(localDots, 1,
                          Min(Len(localDots),
                              Max(0, FREE_DOTS - data.session.blind_dots_used)))
                   ELSE localDots
            ELSE RemoveDot(localDots, k)
       /\ pendingPlacements' =
            IF data.kind = "NO_FREE_DOTS"
            THEN SelectSeq(pendingPlacements, LAMBDA q : q.clientDotId # k)
            ELSE pendingPlacements
       /\ allRequests' = IF reveals THEN allRequests + 1 ELSE allRequests
       /\ flight' = [flight EXCEPT ![k] =
            [@ EXCEPT !.status = IF reveals THEN "fetching" ELSE "handled",
                      !.snapshot = IF carries THEN data.session ELSE NoSession]]
       /\ IF reveals THEN UNCHANGED <<inFlightCount, pendingBlindIds>>
          ELSE Settle(k)
  /\ FreeSlot(r)
  /\ UNCHANGED <<batchUi, pageUi, tables, granted, everRevealed, revealFlips, lateBlind,
                 initial, scenario, before, faults, color_hex, candidateHex,
                 sentOrder>>

\* fetchAllDots has returned: the request is resolved and settled.
ClientFetched(k) ==
  /\ flight[k].status = "fetching"
  /\ flight' = [flight EXCEPT ![k].status = "handled"]
  /\ Settle(k)
  /\ UNCHANGED <<serverVars, batchUi, pageUi, serverSession, isRevealed, pendingPlacements,
                 localDots, sentOrder, allRequests>>

\* catch: the mark of this placement is removed, the request is rejected and
\* settled.
Catch(k) ==
  /\ localDots' = IF flight[k].wasRevealed THEN localDots
                  ELSE RemoveDot(localDots, k)
  /\ flight' = [flight EXCEPT ![k].status = "failed"]
  /\ Settle(k)
  /\ UNCHANGED <<batchUi, pageUi, serverSession, isRevealed, pendingPlacements,
                 sentOrder, allRequests>>

\* fetch rejects with a network error before the request reached the route.
ClientCatch(k) ==
  /\ flight[k].status = "sent"
  /\ Catch(k)
  /\ UNCHANGED serverVars

\* fetch rejects with a network error after the route has run: the response
\* is lost.
ClientCatchResponse(r) ==
  /\ pc[r] = "done" /\ req[r].client
  /\ Catch(req[r].clientDotId)
  /\ FreeSlot(r)
  /\ UNCHANGED <<batchUi, pageUi, tables, granted, everRevealed, revealFlips, lateBlind,
                 initial, scenario, before, faults, color_hex, candidateHex>>

\* The queued client and the steps of /api/dots/place it drives.
ClientNext ==
  \/ ClientPointerDown
  \/ ClientProcessNext
  \/ \E k \in ClientUuids : ClientCatch(k) \/ ClientFetched(k)
  \/ \E r \in Reqs : ClientArrive(r) \/ ClientReceive(r)
                       \/ ClientCatchResponse(r)
                       \/ PlaceOneFetchSession(r) \/ PlaceOneLookup(r)
                       \/ PlaceOneInsertBlind(r) \/ PlaceOneUpdateBlind(r)
                       \/ PlaceOneInsertPaid(r) \/ PlaceOneUpdatePaid(r)

SpecClient == Init /\ [][ClientNext]_vars

\* --------------------------------- the batching client of participant s1
BUFFER_FLUSH_SIZE == 5    \* const BUFFER_FLUSH_SIZE = 5

\* The state of the queued client only.
queueUi == <<pendingPlacements, pendingBlindIds, inFlightCount>>

\* remainingDots: derived from serverSession and the length of the buffer.
batchRemainingDots ==
  IF ~isRevealed
  THEN Max(0, FREE_DOTS - serverSession.blind_dots_used - Len(dotBuffer))
  ELSE 0

\* useCallback(..., [serverSession, isRevealed]): flushBuffer is made anew
\* only in a render in which serverSession is another object, and reads the
\* dotBuffer, isFlushing and serverSession of that render from then on.
Capture(buffer, flushing, snapshot) ==
  [dotBuffer |-> buffer, isFlushing |-> flushing, revealed |-> snapshot.revealed]

\* The auto-fetch effect on [serverSession?.revealed, serverSession?.sessionId]:
\* it runs in the render in which revealed has changed and, when revealed,
\* requests /api/dots/all.
AutoFetch(prev, next) == IF next.revealed /\ ~prev.revealed THEN 1 ELSE 0

\* handlePointerDown: ignored during a flush; in the blind phase while no
\* dots remain; in the revealed phase without credits. The placement gets a
\* new clientDotId, a blind one is drawn, and it is appended to dotBuffer.
BatchPointerDown ==
  /\ component \in {"none", "batching"}
  /\ component' = "batching"
  /\ ~isFlushing
  /\ Clicks < MaxClicks
  /\ IF ~isRevealed THEN batchRemainingDots # 0
     ELSE ~(serverSession.credits <= 0)
  /\ LET clientDotId == randomUUID[Clicks + 1] IN
       /\ localDots' = IF ~isRevealed THEN Append(localDots, clientDotId)
                       ELSE localDots
       /\ dotBuffer' = Append(dotBuffer, clientDotId)
       /\ flight' = [flight EXCEPT ![clientDotId] =
            [NoFlight EXCEPT !.status = "queued",
                             !.phase = IF isRevealed THEN "paid" ELSE "blind"]]
  /\ UNCHANGED <<serverVars, queueUi, isPlacing, serverSession, isRevealed, sentOrder,
                 allRequests, isFlushing, flushBuffer, call, refreshed,
                 flushCalls, netErrors, attempts>>

\* The flush effect, run with the state of the current render when the
\* buffer has BUFFER_FLUSH_SIZE items or the debounce timer expires, calls
\* flushBuffer; flushBuffer tests and sends the dotBuffer it sees, sets
\* isFlushing and empties the buffer.
BatchFlush ==
  /\ dotBuffer # <<>> /\ ~isFlushing
  /\ flushCalls < MaxFlushCalls
  /\ flushCalls' = flushCalls + 1
  /\ IF flushBuffer.dotBuffer = <<>> \/ flushBuffer.isFlushing
     THEN UNCHANGED <<isFlushing, dotBuffer, call, flight, attempts, sentOrder>>
     ELSE LET bufferToSend == flushBuffer.dotBuffer IN
            /\ isFlushing' = TRUE
            /\ dotBuffer' = <<>>
            /\ call' = [status |-> "sent", bufferToSend |-> bufferToSend,
                        revealed |-> flushBuffer.revealed]
            /\ attempts' = [k \in ClientUuids |->
                 IF k \in Range(bufferToSend) THEN attempts[k] + 1
                 ELSE attempts[k]]
            /\ flight' = [k \in ClientUuids |->
                 IF k \in Range(bufferToSend)
                 THEN [flight[k] EXCEPT !.status = "sent"]
                 ELSE IF k \in Range(dotBuffer)
                 THEN [flight[k] EXCEPT !.status = "dropped"]
                 ELSE flight[k]]
            /\ sentOrder' = sentOrder \o bufferToSend
  /\ UNCHANGED <<serverVars, queueUi, pageUi, serverSession, isRevealed, localDots,
                 allRequests, flushBuffer, refreshed, netErrors>>

\* The request of the client reaches the route; its body passes the
\* validation.
BatchArrive(r) ==
  /\ CanStart(r)
  /\ call.status = "sent"
  /\ \E pts \in [1..Len(call.bufferToSend) ->
                   {q \in Points : ~InvalidCoordinates(q[1], q[2])}] :
       req' = [req EXCEPT ![r] =
         [NoReq EXCEPT !.op = "placeBatch", !.sessionId = "s1",
                       !.dots = call.bufferToSend, !.points = pts,
                       !.client = TRUE,
                       !.replay = Accepted("s1", call.bufferToSend)]]
  /\ call' = [call EXCEPT !.status = "arrived"]
  /\ Goto(r, "batch_fetch")
  /\ UNCHANGED <<component, tables, locals, granted, everRevealed, revealFlips, lateBlind,
                 initial, scenario, before, faults, color_hex, candidateHex,
                 queueUi, isPlacing, serverSession, isRevealed, localDots, flight,
                 sentOrder, allRequests, dotBuffer, isFlushing, flushBuffer,
                 refreshed, flushCalls, netErrors, attempts>>

\* setLocalDots(prev => prev.filter(...acceptedIds.has(dot.clientDotId))):
\* every mark of the client is a blind dot of its session.
KeepAccepted(marks, acceptedIds) == SelectSeq(marks, LAMBDA d : d \in acceptedIds)

\* The response handling of flushBuffer. NO_FREE_DOTS and
\* INSUFFICIENT_CREDITS set the snapshot of the body; a success passes it
\* through the blindDotsUsed comparison. NO_FREE_DOTS, a success and any other
\* error keep the marks the body reports as accepted; a success whose
\* snapshot is revealed clears the marks and awaits fetchAllDots before
\* finally resets isFlushing. The tests on isRevealed and
\* serverSession.revealed read what flushBuffer saw when it was called.
\* (triggerReveal, called on NO_FREE_DOTS and on a success with 10 blind dots
\* and revealed = false, is left out: the route gives neither.)
BatchReceive(r) ==
  /\ pc[r] = "done" /\ req[r].client /\ req[r].op = "placeBatch"
  /\ LET data == resp[r]
         updatedSession ==
           IF data.session = NoSession THEN serverSession
           ELSE IF data.kind \in {"NO_FREE_DOTS", "INSUFFICIENT_CREDITS"}
             THEN data.session
           ELSE IF data.kind = "OK"
             THEN AdoptSnapshot(serverSession, data.session)
           ELSE serverSession
         newObject ==
           /\ data.session # NoSession
           /\ \/ data.kind \in {"NO_FREE_DOTS", "INSUFFICIENT_CREDITS"}
              \/ /\ data.kind = "OK"
                 /\ data.session.blind_dots_used >= serverSession.blind_dots_used
         fetches == data.kind = "OK" /\ data.session.revealed
     IN
       /\ serverSession' = updatedSession
       /\ isRevealed' = updatedSession.revealed
       /\ localDots' =
            IF data.kind = "INSUFFICIENT_CREDITS" \/ call.revealed THEN localDots
            ELSE IF fetches THEN <<>>
            ELSE KeepAccepted(localDots, Range(data.accepted))
       /\ allRequests' = allRequests + (IF fetches THEN 1 ELSE 0)
                           + AutoFetch(serverSession, updatedSession)
       /\ isFlushing' = fetches
       /\ call' = IF fetches THEN [call EXCEPT !.status = "fetching"] ELSE NoCall
       /\ flushBuffer' = IF newObject
                         THEN Capture(dotBuffer, fetches, updatedSession)
                         ELSE flushBuffer
       /\ flight' = [k \in ClientUuids |->
            IF k \in Range(call.bufferToSend)
            THEN [flight[k] EXCEPT !.status = "handled",
                                   !.snapshot = data.session]
            ELSE flight[k]]
  /\ FreeSlot(r)
  /\ UNCHANGED <<component, tables, granted, everRevealed, revealFlips, lateBlind,
                 initial, scenario, before, faults, color_hex, candidateHex,
                 queueUi, isPlacing, sentOrder, dotBuffer, refreshed, flushCalls,
                 netErrors, attempts>>

\* fetchAllDots has returned: finally resets isFlushing.
BatchFetched ==
  /\ call.status = "fetching"
  /\ isFlushing' = FALSE
  /\ call' = NoCall
  /\ UNCHANGED <<serverVars, queueUi, pageUi, serverSession, isRevealed, localDots,
                 flight, sentOrder, allRequests, dotBuffer, flushBuffer,
                 refreshed, flushCalls, netErrors, attempts>>

\* catch: "keep buffer (it was already cleared, so restore it)", then finally.
Restore ==
  /\ netErrors < MaxNetErrors
  /\ netErrors' = netErrors + 1
  /\ dotBuffer' = call.bufferToSend
  /\ isFlushing' = FALSE
  /\ flight' = [k \in ClientUuids |->
       IF k \in Range(call.bufferToSend)
       THEN [flight[k] EXCEPT !.status = "queued"] ELSE flight[k]]
  /\ call' = NoCall
  /\ UNCHANGED <<queueUi, pageUi, serverSession, isRevealed, localDots, sentOrder,
                 allRequests, flushBuffer, refreshed, flushCalls, attempts>>

\* fetch rejects with a network error before the request reached the route.
BatchCatch ==
  /\ call.status = "sent"
  /\ Restore
  /\ UNCHANGED serverVars

\* fetch rejects with a network error after the route has run.
BatchCatchResponse(r) ==
  /\ pc[r] = "done" /\ req[r].client /\ req[r].op = "placeBatch"
  /\ Restore
  /\ FreeSlot(r)
  /\ UNCHANGED <<tables, granted, everRevealed, revealFlips, lateBlind,
                 initial, scenario, before, faults, color_hex, candidateHex>>

\* loadSession after a Stripe redirect (success=1): the session is fetched
\* again and set, whatever it holds.
BatchRefresh ==
  /\ component \in {"none", "batching"}
  /\ component' = "batching"
  /\ ~refreshed
  /\ refreshed' = TRUE
  /\ serverSession' = sessions["s1"]
  /\ isRevealed' = sessions["s1"].revealed
  /\ flushBuffer' = Capture(dotBuffer, isFlushing, sessions["s1"])
  /\ allRequests' = allRequests + AutoFetch(serverSession, sessions["s1"])
  /\ UNCHANGED <<serverVars, queueUi, isPlacing, localDots, flight, sentOrder, dotBuffer,
                 isFlushing, call, flushCalls, netErrors, attempts>>

BatchNext ==
  \/ BatchPointerDown
  \/ BatchFlush
  \/ BatchFetched
  \/ BatchCatch
  \/ BatchRefresh
  \/ \E r \in Reqs : BatchArrive(r) \/ BatchReceive(r) \/ BatchCatchResponse(r)
                       \/ PlaceBatchFetchSession(r) \/ PlaceBatchInsertBlind(r)
                       \/ PlaceBatchInsertPaid(r) \/ PlaceBatchUpdateBlind(r)
                       \/ PlaceBatchUpdatePaid(r)

SpecBatch == Init /\ [][BatchNext]_vars

\* ------------------------------------- the page client of participant s1
\* src/app/page.tsx: state.session is serverSession, state.optimistic is
\* localDots; one placement at a time goes to /api/dots/place.

\* handleClick up to the fetch: nothing happens without a session, while a
\* placement is being submitted, once revealed, or with no free dot left;
\* OPTIMISTIC_ADD, setIsPlacing(true) and the request is sent.
PagePointerDown ==
  /\ component \in {"none", "page"}
  /\ component' = "page"
  /\ ~isPlacing
  /\ ~serverSession.revealed
  /\ ~(Max(0, FREE_DOTS - serverSession.blind_dots_used) <= 0)
  /\ Clicks < MaxClicks
  /\ LET clientDotId == randomUUID[Clicks + 1] IN
       /\ localDots' = Append(localDots, clientDotId)
       /\ flight' = [flight EXCEPT ![clientDotId] =
            [NoFlight EXCEPT !.status = "sent",
                             !.snapRevealed = serverSession.revealed]]
       /\ sentOrder' = Append(sentOrder, clientDotId)
  /\ isPlacing' = TRUE
  /\ UNCHANGED <<serverVars, queueUi, batchUi, serverSession, isRevealed,
                 allRequests>>

\* The response handling of handleClick. A failure removes the mark
\* (OPTIMISTIC_REMOVE) and a NO_FREE_DOTS body sets its snapshot; a success
\* sets the snapshot (SESSION_SET replaces the session) and, when it reveals,
\* fetches /api/dots/all; the effect on state.session.revealed fetches
\* /api/dots/all as well when revealed has become true, state.allServer being
\* empty until one of the fetches has answered.
PageReceive(r) ==
  /\ pc[r] = "done" /\ req[r].client /\ req[r].op = "placeOne" /\ isPlacing
  /\ LET clientDotId == req[r].clientDotId
         data == resp[r]
         ok == data.kind = "OK"
         sets == /\ data.session # NoSession
                 /\ data.kind \in {"OK", "NO_FREE_DOTS"}
         session_ == IF sets THEN data.session ELSE serverSession
         fetches == /\ ok /\ sets /\ data.session.revealed
                    /\ ~flight[clientDotId].snapRevealed
     IN
       /\ serverSession' = session_
       /\ isRevealed' = session_.revealed
       /\ localDots' = IF ok THEN localDots
                       ELSE RemoveDot(localDots, clientDotId)
       /\ allRequests' = allRequests + (IF fetches THEN 1 ELSE 0)
                           + AutoFetch(serverSession, session_)
       /\ flight' = [flight EXCEPT ![clientDotId] =
            [@ EXCEPT !.status = "handled", !.snapshot = data.session]]
  /\ isPlacing' = FALSE
  /\ FreeSlot(r)
  /\ UNCHANGED <<component, tables, granted, everRevealed, revealFlips,
                 lateBlind, initial, scenario, before, faults, color_hex,
                 candidateHex, queueUi, batchUi, sentOrder>>

\* catch of handleClick: OPTIMISTIC_REMOVE and setIsPlacing(false).
PageRemove(clientDotId) ==
  /\ localDots' = RemoveDot(localDots, clientDotId)
  /\ flight' = [flight EXCEPT ![clientDotId].status = "failed"]
  /\ isPlacing' = FALSE
  /\ UNCHANGED <<component, queueUi, batchUi, serverSession, isRevealed,
                 sentOrder, allRequests>>

\* fetch rejects with a network error before the request reached the route.
PageCatch(k) ==
  /\ isPlacing /\ flight[k].status = "sent"
  /\ PageRemove(k)
  /\ UNCHANGED serverVars

\* fetch rejects with a network error after the route has run.
PageCatchResponse(r) ==
  /\ pc[r] = "done" /\ req[r].client /\ req[r].op = "placeOne" /\ isPlacing
  /\ PageRemove(req[r].clientDotId)
  /\ FreeSlot(r)
  /\ UNCHANGED <<tables, granted, everRevealed, revealFlips, lateBlind,
                 initial, scenario, before, faults, color_hex, candidateHex>>

\* The request of handleClick reaches the route.
PageArrive(r) == isPlacing /\ ClientArrive(r)

PageNext ==
  \/ PagePointerDown
  \/ \E k \in ClientUuids : PageCatch(k)
  \/ \E r \in Reqs : PageArrive(r) \/ PageReceive(r) \/ PageCatchResponse(r)
                       \/ PlaceOneFetchSession(r) \/ PlaceOneLookup(r)
                       \/ PlaceOneInsertBlind(r) \/ PlaceOneUpdateBlind(r)

SpecPage == Init /\ [][PageNext]_vars

\* Either Home component in the browser of participant s1, and database
\* calls of the two placement routes that may fail.
MarksNext ==
  \/ PageNext
  \/ BatchNext
  \/ \E r \in Reqs : PlaceOneFetchSessionFault(r) \/ PlaceOneLookupFault(r)
                       \/ PlaceOneInsertFault(r) \/ PlaceOneUpdateFault(r)
                       \/ PlaceOneRefetch(r)
                       \/ PlaceBatchFetchSessionFault(r)
                       \/ PlaceBatchInsertFault(r) \/ PlaceBatchUpdateFault(r)

SpecMarks == Init /\ [][MarksNext]_vars

\* ================================================================ claims
DEFAULT_CREDITS == 0      \* sessions.credits INT NOT NULL DEFAULT 0

Issued == {r \in Reqs : pc[r] # "idle"}

\* C1: under any interleaving of placeOne and placeBatch requests, a
\* participant never has more than 10 stored phase 'blind' placements.
C1_BlindDotsNeverExceedLimit ==
  \A s \in Sessions : CountDots(dots, s, "blind") <= FREE_DOTS

\* C2: once every request issued has returned, the number of stored phase
\* 'blind' placements of a participant equals its blind_dots_used.
C2_BlindCountEqualsUsed ==
  Quiescent =>
    \A s \in Sessions : CountDots(dots, s, "blind") = sessions[s].blind_dots_used

\* C3: when the requests issued to a participant with free quota left are
\* N >= 2 valid placeOne requests with the same (sessionId, clientDotId) and
\* all have returned, exactly one placement is stored for the key,
\* blind_dots_used has grown by exactly 1 and all N responses report the
\* same outcome.
C3_SameKeyOnceSameOutcome ==
  \A s \in Sessions, k \in ClientDotIds :
    LET same == {r \in Issued : /\ req[r].op = "placeOne"
                                /\ req[r].sessionId = s
                                /\ req[r].clientDotId = k
                                /\ resp[r].kind # "VALIDATION"}
    IN (/\ Quiescent /\ same = Issued /\ Cardinality(same) >= 2
        /\ ~initial[s].revealed
        /\ initial[s].blind_dots_used < FREE_DOTS) =>
         /\ dots[Row(s, "blind", k)] + dots[Row(s, "paid", k)] = 1
         /\ sessions[s].blind_dots_used = initial[s].blind_dots_used + 1
         /\ \A r1, r2 \in same : resp[r1].kind = resp[r2].kind

\* C4: a placeOne request whose (sessionId, clientDotId) was already accepted
\* when it was issued returns success, and none of its steps inserts a
\* placement or changes blind_dots_used or credits.
C4_PlaceOneReplayIsNoOp ==
  [][\A r \in Reqs :
       (req[r].op = "placeOne" /\ req[r].replay /\ pc'[r] # pc[r]) =>
         /\ dots' = dots
         /\ sessions'[req[r].sessionId].blind_dots_used
              = sessions[req[r].sessionId].blind_dots_used
         /\ sessions'[req[r].sessionId].credits
              = sessions[req[r].sessionId].credits
         /\ (pc'[r] = "done" => resp'[r].kind = "OK")]_vars

\* C5: a placeBatch request all of whose clientDotIds were accepted by
\* earlier requests stores no placement and leaves blind_dots_used and
\* credits unchanged.
C5_BatchReplayIsNoOp ==
  [][\A r \in Reqs :
       (req[r].op = "placeBatch" /\ req[r].replay /\ pc'[r] # pc[r]) =>
         /\ dots' = dots
         /\ sessions'[req[r].sessionId].blind_dots_used
              = sessions[req[r].sessionId].blind_dots_used
         /\ sessions'[req[r].sessionId].credits
              = sessions[req[r].sessionId].credits]_vars

\* C6: the stored revealed flag changes from false to true at most once and,
\* once true, is never written back to false.
C6_RevealedOnceNeverReverts ==
  \A s \in Sessions :
    /\ revealFlips[s] <= 1
    /\ everRevealed[s] => sessions[s].revealed

\* C7: no placement stored after the participant's revealed flag has become
\* true is recorded with phase 'blind'.
C7_NoBlindAfterReveal == \A s \in Sessions : lateBlind[s] = 0

\* C8: once every request has returned, credits equals the initial balance
\* plus the credits granted minus the number of stored 'paid' placements.
C8_CreditConservation ==
  Quiescent =>
    \A s \in Sessions :
      sessions[s].credits
        = DEFAULT_CREDITS + granted[s] - CountDots(dots, s, "paid")

\* C9: credits is never negative in any reachable state, whatever the
\* interleaving of paid placements and credit grants.
C9_CreditsNeverNegative == \A s \in Sessions : sessions[s].credits >= 0

\* Two paid placements were accepted on one read of a single credit, and a
\* batch spent its session's last credit: the balance is 0, not below.
C9_Witness ==
  \E r \in Reqs :
    /\ req[r].op \in {"placeOne", "placeBatch"}
    /\ pc[r] = "done" /\ resp[r].kind = "OK"
    /\ session[r].revealed /\ session[r].credits > 0
    /\ sessions[req[r].sessionId].credits = 0
    /\ CountDots(dots, req[r].sessionId, "paid")
         > DEFAULT_CREDITS + granted[req[r].sessionId]

\* C10: listAllPlacements answers by the revealed flag it reads: an error and
\* no placements when the flag is false, the placements of all participants
\* when it is true, however many placements are stored.
C10_ListAllGatedOnRevealed ==
  [][\A r \in Reqs :
       (req[r].op = "all" /\ pc[r] # "done" /\ pc'[r] = "done"
          /\ session'[r] # NoSession) =>
         IF session'[r].revealed
         THEN resp'[r].kind = "OK" /\ resp'[r].dots = dots
         ELSE resp'[r].kind = "NOT_REVEALED" /\ resp'[r].dots = EmptyDots]_vars

\* A revealed participant was returned placements of another participant,
\* and a request of a participant that is not revealed was refused.
C10_Witness ==
  \E r, q \in Reqs :
    /\ req[r].op = "all" /\ pc[r] = "done" /\ resp[r].kind = "OK"
    /\ \E k \in RowKinds : k.session_id # req[r].sessionId /\ resp[r].dots[k] > 0
    /\ req[q].op = "all" /\ pc[q] = "done" /\ resp[q].kind = "NOT_REVEALED"
    /\ TotalDots(dots) > 0


\* C11: for a new participant placing one valid dot at a time, the k-th
\* placeOne request, k = 1..9, returns revealed=false and blindDotsUsed=k,
\* and the 10th returns revealed=true and blindDotsUsed=10.
C11_KthPlacementSnapshot ==
  \A r \in Reqs, s \in Sessions :
    (/\ pc[r] = "done" /\ NewPlacement(r) /\ req[r].sessionId = s
     /\ scenario[s] >= 0 /\ scenario[s] < FREE_DOTS) =>
      /\ resp[r].kind = "OK"
      /\ resp[r].session.blind_dots_used = scenario[s] + 1
      /\ resp[r].session.revealed = (scenario[s] + 1 = FREE_DOTS)

\* The 10th placement of a new participant has returned, and its ten dots
\* are stored.
C11_Witness ==
  \E r \in Reqs :
    /\ pc[r] = "done" /\ NewPlacement(r)
    /\ scenario[req[r].sessionId] = FREE_DOTS - 1
    /\ resp[r].session = SessionRow(FREE_DOTS, TRUE, 0)
    /\ CountDots(dots, req[r].sessionId, "blind") = FREE_DOTS

\* C12: after a participant has placed its 10 free dots one at a time, an
\* 11th placeOne request returns NO_FREE_DOTS with a snapshot showing
\* blindDotsUsed=10 and revealed=true, and stores nothing.
C12_EleventhIsQuotaExhausted ==
  \A r \in Reqs, s \in Sessions :
    (/\ pc[r] = "done" /\ NewPlacement(r) /\ req[r].sessionId = s
     /\ scenario[s] = FREE_DOTS) =>
      /\ resp[r].kind = "NO_FREE_DOTS"
      /\ resp[r].session.blind_dots_used = FREE_DOTS
      /\ resp[r].session.revealed
      /\ CountDots(dots, s, "blind") = FREE_DOTS
      /\ CountDots(dots, s, "paid") = 0

\* C13: a placeOne request for a participant whose stored ledger is
\* blind_dots_used=10, revealed=true, credits=0 is rejected with the
\* insufficient-credits outcome, stores no dot and leaves credits at 0.
C13_NoCreditsRejected ==
  [][\A r \in Reqs :
       (/\ req[r].op = "placeOne" /\ pc[r] = "place_fetch"
        /\ req[r].sessionId \in Sessions
        /\ sessions[req[r].sessionId] = SessionRow(FREE_DOTS, TRUE, 0)
        /\ pc'[r] # pc[r]) =>
         /\ pc'[r] = "done" /\ resp'[r].kind = "INSUFFICIENT_CREDITS"
         /\ dots' = dots
         /\ sessions' = sessions]_vars

\* A placement was refused for lack of credits after the ten free dots.
C13_Witness ==
  \E r \in Reqs :
    /\ pc[r] = "done" /\ req[r].op = "placeOne"
    /\ session[r] = SessionRow(FREE_DOTS, TRUE, 0)
    /\ resp[r].kind = "INSUFFICIENT_CREDITS"
    /\ sessions[req[r].sessionId] = SessionRow(FREE_DOTS, TRUE, 0)
    /\ CountDots(dots, req[r].sessionId, "paid") = 0

\* C14: every NO_FREE_DOTS and INSUFFICIENT_CREDITS rejection returned by
\* placeOne or placeBatch carries a snapshot (blindDotsUsed, revealed,
\* credits) equal to the ledger row the decision was taken on.
C14_RejectionCarriesSnapshot ==
  \A r \in Reqs :
    (/\ pc[r] = "done" /\ req[r].op \in {"placeOne", "placeBatch"}
     /\ resp[r].kind \in {"NO_FREE_DOTS", "INSUFFICIENT_CREDITS"}) =>
      /\ resp[r].session # NoSession
      /\ resp[r].session = session[r]

\* C15: a placeBatch request with more dots than the free quota left, sent
\* with no other request in flight, accepts exactly the remaining number of
\* dots, reports NO_FREE_DOTS for the remainder, and returns a snapshot with
\* blindDotsUsed=10 and revealed=true.
C15_BatchOverQuota ==
  \A r \in Reqs :
    (/\ pc[r] = "done" /\ req[r].op = "placeBatch"
     /\ session[r] # NoSession /\ ~session[r].revealed
     /\ \A q \in Reqs \ {r} : pc[q] = "idle"
     /\ FREE_DOTS - session[r].blind_dots_used < Len(req[r].dots)) =>
      /\ Len(resp[r].accepted) = FREE_DOTS - session[r].blind_dots_used
      /\ resp[r].kind = "NO_FREE_DOTS"
      /\ resp[r].session.blind_dots_used = FREE_DOTS
      /\ resp[r].session.revealed

\* C16: a placeOne request with a coordinate outside [0,1], and a placeBatch
\* request with such a dot, is answered with a validation error by its first
\* step, before any session row is read, and leaves sessions and dots
\* unchanged.
C16_InvalidCoordinatesRejected ==
  [][\A r \in Reqs :
       (/\ pc[r] = "idle" /\ pc'[r] # "idle"
        /\ req'[r].op \in {"placeOne", "placeBatch"}
        /\ \E i \in 1..Len(req'[r].points) :
             \/ req'[r].points[i][1] \notin 0..10
             \/ req'[r].points[i][2] \notin 0..10) =>
         /\ pc'[r] = "done" /\ resp'[r].kind = "VALIDATION"
         /\ session'[r] = NoSession
         /\ sessions' = sessions
         /\ dots' = dots]_vars

\* A batch whose second dot has x = 1.5 was refused while dots were stored.
C16_Witness ==
  \E r \in Reqs :
    /\ pc[r] = "done" /\ req[r].op = "placeBatch"
    /\ resp[r].kind = "VALIDATION"
    /\ Len(req[r].points) = 2
    /\ req[r].points[1] = <<0, 10>> /\ req[r].points[2] = <<15, 5>>
    /\ TotalDots(dots) > 0

\* C17: the reveal request succeeds only if the blind_dots_used it read is at
\* least 10; otherwise it returns an error and leaves the ledger unchanged.
\* For a participant already revealed it succeeds, changes no ledger field
\* and returns the stored row.
C17_RevealOnlyAtQuota ==
  [][\A r \in Reqs :
       (/\ req[r].op = "reveal" /\ pc[r] # "done" /\ pc'[r] = "done"
        /\ session'[r] # NoSession) =>
         /\ resp'[r].kind = "OK" => session'[r].blind_dots_used >= FREE_DOTS
         /\ session'[r].blind_dots_used < FREE_DOTS =>
              /\ resp'[r].kind = "QUOTA_NOT_MET"
              /\ sessions' = sessions
         /\ sessions[req[r].sessionId].revealed =>
              /\ resp'[r].kind = "OK"
              /\ sessions' = sessions
              /\ resp'[r].session = sessions[req[r].sessionId]]_vars

\* A reveal request of a revealed participant returned its stored row.
C17_Witness ==
  \E r \in Reqs :
    /\ pc[r] = "done" /\ req[r].op = "reveal" /\ resp[r].kind = "OK"
    /\ session[r].revealed
    /\ resp[r].session = sessions[req[r].sessionId]
    /\ resp[r].session.blind_dots_used = FREE_DOTS

\* C18: every snapshot returned by placeOne, placeBatch or reveal satisfies
\* blindDotsUsed >= 10 => revealed, under any interleaving of requests.
C18_SnapshotRevealedAtQuota ==
  \A r \in Reqs :
    (/\ pc[r] = "done" /\ req[r].op \in {"placeOne", "placeBatch", "reveal"}
     /\ resp[r].session # NoSession) =>
      (resp[r].session.blind_dots_used >= FREE_DOTS => resp[r].session.revealed)

\* Two requests that raced for the last free dot both returned a snapshot at
\* the quota.
C18_Witness ==
  \E r, q \in Reqs :
    /\ r # q /\ pc[r] = "done" /\ pc[q] = "done"
    /\ req[r].op = "placeOne" /\ req[q].op = "placeBatch"
    /\ req[r].sessionId = req[q].sessionId
    /\ session[r] = session[q] /\ ~session[r].revealed
    /\ resp[r].session.blind_dots_used = FREE_DOTS /\ resp[r].session.revealed
    /\ resp[q].session.blind_dots_used = FREE_DOTS /\ resp[q].session.revealed

\* C19: stored blind_dots_used never decreases: every write stores a value
\* greater than or equal to the one stored just before it.
C19_BlindDotsUsedNeverDecreases ==
  [][\A s \in Sessions :
       sessions'[s].blind_dots_used >= sessions[s].blind_dots_used]_vars

\* C20: in every reachable state the stored blind_dots_used of every
\* participant is between 0 and 10, under any interleaving of placeOne and
\* placeBatch requests.
C20_BlindDotsUsedInRange ==
  \A s \in Sessions :
    sessions[s].blind_dots_used \in 0..FREE_DOTS

\* Two requests both took the last free dot: 11 blind dots are stored and the
\* counter stands at 10.
C20_Witness ==
  \E s \in Sessions :
    /\ Quiescent
    /\ CountDots(dots, s, "blind") > FREE_DOTS
    /\ sessions[s].blind_dots_used = FREE_DOTS


\* C21: a placeBatch on a list of dots leaves the same stored placements
\* (count per phase) and the same ledger as placeOne requests for the same
\* dots sent one after another in list order, stopping at the first
\* rejection, from the same starting ledger.  s1 receives the batch, s2 the
\* single requests; the dots of the list carry different clientDotIds.
PairFinished(b, r) ==
  /\ BatchForS1(b) /\ pc[b] = "done"
  /\ Cardinality(Range(req[b].dots)) = Len(req[b].dots)
  /\ pc[r] = "done" /\ NextItemForS2(r, b)
  /\ resp[r].kind # "OK" \/ scenario["s2"] + 1 = Len(req[b].dots)

C21_BatchEqualsSequence ==
  \A b, r \in Reqs :
    (b # r /\ PairFinished(b, r)) =>
      /\ \A ph \in Phases : CountDots(dots, "s1", ph) = CountDots(dots, "s2", ph)
      /\ sessions["s1"] = sessions["s2"]

\* Rows of a phase stored for a session since the caller sent its request.
StoredSince(sessionId, phase) ==
  CountDots(dots, sessionId, phase) - CountDots(before[2], sessionId, phase)

\* C22: when a database call of a placeOne request fails, a request that
\* does not succeed leaves both tables as they were when it was sent, and
\* in every case the request stores no placement without its ledger debit
\* and makes no debit without its placement.
C22_FaultLeavesTablesUnchanged ==
  \A r \in Reqs :
    (pc[r] = "done" /\ req[r].op = "placeOne" /\ req[r].fault
       /\ req[r].sessionId \in Sessions) =>
      LET s == req[r].sessionId IN
        /\ resp[r].kind # "OK" => tables = before
        /\ StoredSince(s, "blind") =
             sessions[s].blind_dots_used - before[1][s].blind_dots_used
        /\ StoredSince(s, "paid") = before[1][s].credits - sessions[s].credits

\* C23: a placeOne or placeBatch request one of whose database calls failed
\* answers with an infrastructure error, never with success, quota-exhausted,
\* insufficient-credits or not-found.
C23_FaultSurfacesAsStorageError ==
  \A r \in Reqs :
    (pc[r] = "done" /\ req[r].op \in {"placeOne", "placeBatch"} /\ req[r].fault) =>
      resp[r].kind = "STORAGE_ERROR"

\* participants: the session ids that have a row.
Participants == {id \in DOMAIN color_hex : color_hex[id] # NULL}

\* C24: no two participants hold the same color_hex, whatever requests
\* (session init for the same colour name included) run concurrently, and no
\* step changes the color_hex of a participant that has one.
C24_ColorUniqueAndFixed ==
  [][/\ \A a, b \in Participants' : color_hex'[a] = color_hex'[b] => a = b
     /\ \A a \in Participants : color_hex'[a] = color_hex[a]]_vars

\* Two requests asked for the same colour name at the same time, one lost the
\* insert to the other, and both were given a hex.
C24_Witness ==
  \E a, b \in Reqs :
    /\ a # b /\ req[a].colorName = req[b].colorName
    /\ resp[a].kind = "OK" /\ resp[b].kind = "OK"
    /\ idx[b] > 0

\* C25: a step of a webhook request changes the credits of a participant
\* only as the grant of a request with a verified signature, event type
\* checkout.session.completed and a price id of PRICE_TO_CREDITS, and then
\* raises them by the credits of that price; a webhook request answered
\* otherwise (bad or missing signature, other event type, missing data,
\* unknown price, unknown participant) leaves every participant's credits
\* unchanged.
C25_WebhookGrantsOnlyVerified ==
  [][\A r \in Reqs :
       (req'[r].op = "webhook" /\ pc'[r] # pc[r]) =>
         /\ \A s \in Sessions :
              sessions'[s].credits # sessions[s].credits =>
                /\ req[r].sessionId = s
                /\ req[r].signature = "valid"
                /\ req[r].type = "checkout.session.completed"
                /\ req[r].priceId \in PriceIds
                /\ sessions'[s].credits =
                     sessions[s].credits + PRICE_TO_CREDITS[req[r].priceId]
         /\ (/\ pc'[r] = "done"
             /\ \/ resp'[r].kind \in {"BAD_SIGNATURE", "MISSING_DATA",
                                      "UNKNOWN_PRICE", "NOT_FOUND"}
                \/ req'[r].priceId = NULL) =>
              \A s \in Sessions : sessions'[s].credits = sessions[s].credits]_vars

\* A verified purchase of the 50-credit bundle has been granted.
C25_Witness ==
  \E r \in Reqs :
    /\ req[r].op = "webhook" /\ pc[r] = "done" /\ resp[r].kind = "OK"
    /\ req[r].priceId = "price_50"
    /\ sessions[req[r].sessionId].credits >= CREDITS_50

\* C26: in every reachable state a participant whose stored revealed flag is
\* true has a stored blind_dots_used of at least 10, under any interleaving
\* of placeOne, placeBatch and reveal requests.
C26_RevealedImpliesQuotaUsed ==
  \A s \in Sessions : sessions[s].revealed => sessions[s].blind_dots_used >= FREE_DOTS

\* C27: the dots a placeBatch request reports as accepted are a prefix of the
\* submitted list, in order: if dot i is not accepted, no dot j > i is.
C27_AcceptedIsPrefix ==
  \A r \in Reqs :
    (pc[r] = "done" /\ req[r].op = "placeBatch") =>
      /\ Len(resp[r].accepted) <= Len(req[r].dots)
      /\ \A i \in 1..Len(resp[r].accepted) : resp[r].accepted[i] = req[r].dots[i]

\* C28: a step changes the credits of a participant only as a webhook grant,
\* which raises them by the granted amount, or as the ledger write of an
\* accepted placement request, which lowers them by exactly the number of
\* 'paid' placements the request stored; no other step (blind placements,
\* reveal, rejected requests, reads) changes them.
C28_CreditsChangeOnlyByGrantOrPaidDot ==
  [][\A s \in Sessions :
       sessions'[s].credits # sessions[s].credits =>
         \E r \in Reqs :
           /\ req[r].sessionId = s /\ pc'[r] # pc[r]
           /\ \/ /\ req[r].op = "webhook"
                 /\ sessions'[s].credits = sessions[s].credits + req[r].creditsToGrant
              \/ /\ req[r].op \in {"placeOne", "placeBatch"}
                 /\ resp'[r].kind = "OK"
                 /\ sessions[s].credits - sessions'[s].credits = StoredSince(s, "paid")]_vars

C30_ClientRevealedOnceNeverBack ==
  [][/\ isRevealed => isRevealed'
     /\ (~isRevealed /\ isRevealed') =>
          \E r \in Reqs : /\ pc[r] = "done" /\ req[r].client
                          /\ pc'[r] = "idle"
                          /\ resp[r].session.revealed]_vars

\* C33: the queued client never has more than MAX_IN_FLIGHT placeOne requests
\* in flight; placements are sent in the order they were enqueued, none
\* twice, and a placement not yet sent is still waiting in the queue.
C33_AtMostThreeInFlightInOrder ==
  /\ Cardinality(InFlight) <= MAX_IN_FLIGHT
  /\ sentOrder = SubSeq(randomUUID, 1, Len(sentOrder))
  /\ [i \in 1..Len(pendingPlacements) |-> pendingPlacements[i].clientDotId]
       = SubSeq(randomUUID, Len(sentOrder) + 1, Clicks)

\* Three requests are in flight and a fourth placement waits in the queue.
C33_Witness ==
  /\ Cardinality(InFlight) = MAX_IN_FLIGHT
  /\ pendingPlacements # <<>>

\* Nothing is queued and every request of the client has been settled.
ClientQuiet ==
  /\ pendingPlacements = <<>>
  /\ \A k \in ClientUuids : flight[k].status \in {"none", "handled", "failed"}

\* C34: once the queue is empty and every request in flight has resolved, by
\* a success, a rejection or a network error, no pending blind id is left,
\* so in the blind phase the remaining quota shown is 10 minus the held
\* blind_dots_used.
C34_NoDriftWhenQuiet ==
  ClientQuiet =>
    /\ pendingBlindIds = {}
    /\ ~isRevealed =>
         remainingDots = FREE_DOTS - serverSession.blind_dots_used

\* The client is quiet and still blind after one blind placement succeeded
\* and another failed with a network error.
C34_Witness ==
  /\ ClientQuiet /\ ~isRevealed
  /\ \E k \in ClientUuids :
       flight[k].status = "handled" /\ flight[k].phase = "blind"
  /\ \E k \in ClientUuids :
       flight[k].status = "failed" /\ flight[k].phase = "blind"

\* C36: a click creates a placement only when, in the blind state, 10 minus
\* the held blind_dots_used minus the placements queued or in flight is
\* greater than 0, or, in the revealed state, the held credits are greater
\* than 0.
C36_ClickOnlyWithQuotaOrCredits ==
  [][Clicks' > Clicks =>
       IF ~isRevealed
       THEN FREE_DOTS - serverSession.blind_dots_used
              - Cardinality({k \in ClientUuids :
                  flight[k].status \in {"queued", "sent", "arrived"}}) > 0
       ELSE serverSession.credits > 0]_vars

\* The client has processed the response in slot r.
Processed(r) ==
  /\ pc[r] = "done" /\ req[r].client /\ pc'[r] = "idle"
  /\ \E k \in ClientUuids : flight[k].status # "handled"
                              /\ flight'[k].status = "handled"

\* The idempotency keys a request submitted and those its response reports
\* as accepted.
SubmittedKeys(r) ==
  IF req[r].op = "placeOne" THEN {req[r].clientDotId} ELSE Range(req[r].dots)
AcceptedKeys(r) ==
  IF resp[r].kind # "OK" THEN {}
  ELSE IF req[r].op = "placeOne" THEN {req[r].clientDotId}
  ELSE Range(resp[r].accepted)

\* C35: once the client has processed the response to a submission and still
\* draws its provisional marks (the response did not reveal the canvas), the
\* mark of a submitted placement is in the render set if and only if the
\* response reports its idempotency key as accepted.
C35_MarkKeptIffAccepted ==
  [][\A r \in Reqs :
       (Processed(r) /\ ~isRevealed') =>
         \A k \in SubmittedKeys(r) :
           (k \in Range(localDots')) <=> (k \in AcceptedKeys(r))]_vars

\* C37: in the batching client every call of flushBuffer made for a
\* non-empty buffer sends a placeBatch request carrying the buffered
\* placements, and a placement leaves the buffer only into such a request.
C37_BufferedIsSent ==
  [][/\ (flushCalls' > flushCalls) =>
          (call'.status = "sent" /\ call'.bufferToSend = dotBuffer)
     /\ \A k \in Range(dotBuffer) \ Range(dotBuffer') :
          k \in Range(call'.bufferToSend)]_vars

\* C32: a placement whose submission fails with a network error is submitted
\* again a fixed number of times only, fewer than the MaxNetErrors network
\* errors a behaviour may contain: no placement is carried by more than
\* MaxNetErrors requests.
C32_RetriesBounded == \A k \in ClientUuids : attempts[k] <= MaxNetErrors

\* C31: the snapshot that reports revealed for the first time makes the
\* client request /api/dots/all exactly once, and no other step requests it.
C31_FetchAllOnce ==
  [][IF ~serverSession.revealed /\ serverSession'.revealed
     THEN allRequests' = allRequests + 1
     ELSE allRequests' = allRequests]_vars
==========================================================================
